---- MODULE Spec2Model ----
(***************************************************************************)
(* A model of the strtotime parsing engine: StrToTime with its ordered     *)
(* format sub-parsers, the compound-expression splitter and the            *)
(* token-stream Parser.                                                    *)
(*                                                                         *)
(* Strings are TLA+ strings; the character at byte i (1-based) of s is     *)
(* SubSeq(s, i, i).  Inputs are ASCII, so byte offsets and character       *)
(* indexes coincide.                                                       *)
(*                                                                         *)
(* A time.Time is the record [day, sec, ns, loc]: day counts the days      *)
(* since 0001-01-01 and sec the seconds of that day, both in UTC; loc is   *)
(* the name of its location.  Locations have a fixed offset from UTC       *)
(* (daylight-saving transitions of the host zone database are not          *)
(* modelled).                                                              *)
(***************************************************************************)
EXTENDS Integers, Sequences, FiniteSets, TLC

(***************************************************************************)
(* Characters and strings                                                  *)
(***************************************************************************)

Ch(s, i) == SubSeq(s, i, i)

DigitChars == {"0", "1", "2", "3", "4", "5", "6", "7", "8", "9"}

UpperChars ==
    {"A", "B", "C", "D", "E", "F", "G", "H", "I", "J", "K", "L", "M",
     "N", "O", "P", "Q", "R", "S", "T", "U", "V", "W", "X", "Y", "Z"}

LowerChars ==
    {"a", "b", "c", "d", "e", "f", "g", "h", "i", "j", "k", "l", "m",
     "n", "o", "p", "q", "r", "s", "t", "u", "v", "w", "x", "y", "z"}

\* unicode.IsDigit on the ASCII range
IsDigit(c) == c \in DigitChars

\* unicode.IsSpace on the ASCII range
IsSpace(c) == c \in {" ", "\t", "\n", "\r"}

IsLetter(c) == c \in LowerChars \cup UpperChars

DigitVal(c) ==
    CASE c = "0" -> 0 [] c = "1" -> 1 [] c = "2" -> 2 [] c = "3" -> 3
      [] c = "4" -> 4 [] c = "5" -> 5 [] c = "6" -> 6 [] c = "7" -> 7
      [] c = "8" -> 8 [] c = "9" -> 9

LowerOf(c) ==
    CASE c = "A" -> "a" [] c = "B" -> "b" [] c = "C" -> "c" [] c = "D" -> "d"
      [] c = "E" -> "e" [] c = "F" -> "f" [] c = "G" -> "g" [] c = "H" -> "h"
      [] c = "I" -> "i" [] c = "J" -> "j" [] c = "K" -> "k" [] c = "L" -> "l"
      [] c = "M" -> "m" [] c = "N" -> "n" [] c = "O" -> "o" [] c = "P" -> "p"
      [] c = "Q" -> "q" [] c = "R" -> "r" [] c = "S" -> "s" [] c = "T" -> "t"
      [] c = "U" -> "u" [] c = "V" -> "v" [] c = "W" -> "w" [] c = "X" -> "x"
      [] c = "Y" -> "y" [] c = "Z" -> "z" [] OTHER -> c

RECURSIVE ToLower(_)
ToLower(s) ==
    IF s = "" THEN "" ELSE LowerOf(Ch(s, 1)) \o ToLower(SubSeq(s, 2, Len(s)))

RECURSIVE TrimLeft(_)
TrimLeft(s) ==
    IF s # "" /\ IsSpace(Ch(s, 1)) THEN TrimLeft(SubSeq(s, 2, Len(s))) ELSE s

RECURSIVE TrimRight(_)
TrimRight(s) ==
    IF s # "" /\ IsSpace(Ch(s, Len(s)))
    THEN TrimRight(SubSeq(s, 1, Len(s) - 1)) ELSE s

TrimSpace(s) == TrimRight(TrimLeft(s))

HasPrefix(s, p) == Len(s) >= Len(p) /\ SubSeq(s, 1, Len(p)) = p

HasSuffix(s, p) ==
    Len(s) >= Len(p) /\ SubSeq(s, Len(s) - Len(p) + 1, Len(s)) = p

\* strings.Contains for a one-character needle
ContainsChar(s, c) == \E i \in 1..Len(s) : Ch(s, i) = c

\* strings.Count for a one-character needle
CountChar(s, c) == Cardinality({i \in 1..Len(s) : Ch(s, i) = c})

AllDigits(s) == \A i \in 1..Len(s) : IsDigit(Ch(s, i))

AllLetters(s) == \A i \in 1..Len(s) : IsLetter(Ch(s, i))

RECURSIVE DigitsValue(_)
DigitsValue(s) ==
    IF s = "" THEN 0
    ELSE 10 * DigitsValue(SubSeq(s, 1, Len(s) - 1)) + DigitVal(Ch(s, Len(s)))

\* strconv.Atoi: an optional sign followed by at least one digit
Atoi(s) ==
    LET signed == s # "" /\ Ch(s, 1) \in {"+", "-"}
        body   == IF signed THEN SubSeq(s, 2, Len(s)) ELSE s
    IN  IF body = "" \/ ~AllDigits(body) THEN [ok |-> FALSE, v |-> 0]
        ELSE [ok |-> TRUE,
              v  |-> IF signed /\ Ch(s, 1) = "-"
                     THEN 0 - DigitsValue(body) ELSE DigitsValue(body)]

\* strings.Split(s, sep) for a one-character separator
RECURSIVE SplitFrom(_, _, _, _)
SplitFrom(s, sep, i, cur) ==
    IF i > Len(s) THEN <<cur>>
    ELSE IF Ch(s, i) = sep THEN <<cur>> \o SplitFrom(s, sep, i + 1, "")
    ELSE SplitFrom(s, sep, i + 1, cur \o Ch(s, i))

Split(s, sep) == SplitFrom(s, sep, 1, "")

(***************************************************************************)
(* time.Time of the Go standard library, as far as the parser uses it      *)
(***************************************************************************)

\* the zone identifiers of the host zone database that the model knows
HostZones ==
    {"UTC", "America/New_York", "America/Chicago", "America/Denver",
     "America/Los_Angeles", "America/Anchorage", "Pacific/Honolulu",
     "Europe/London", "Europe/Dublin", "Europe/Paris", "Europe/Helsinki",
     "Australia/Perth", "Australia/Adelaide", "Australia/Sydney",
     "Asia/Tokyo", "Asia/Shanghai", "Asia/Kolkata"}

\* time.FixedZone: a fixed zone is named by its offset, sign and hhmm
FixedZoneOffset(loc) ==
    LET secs == DigitsValue(SubSeq(loc, 2, 3)) * 3600
                    + DigitsValue(SubSeq(loc, 4, 5)) * 60
    IN  IF Ch(loc, 1) = "-" THEN 0 - secs ELSE secs

\* seconds east of UTC of each location (standard time)
ZoneOffset(loc) ==
    CASE loc = "UTC"                 -> 0
      [] loc = "America/New_York"    -> 0 - 18000
      [] loc = "America/Chicago"     -> 0 - 21600
      [] loc = "America/Denver"      -> 0 - 25200
      [] loc = "America/Los_Angeles" -> 0 - 28800
      [] loc = "America/Anchorage"   -> 0 - 32400
      [] loc = "Pacific/Honolulu"    -> 0 - 36000
      [] loc = "Europe/London"       -> 0
      [] loc = "Europe/Dublin"       -> 0
      [] loc = "Europe/Paris"        -> 3600
      [] loc = "Europe/Helsinki"     -> 7200
      [] loc = "Australia/Perth"     -> 28800
      [] loc = "Australia/Adelaide"  -> 34200
      [] loc = "Australia/Sydney"    -> 36000
      [] loc = "Asia/Tokyo"          -> 32400
      [] loc = "Asia/Shanghai"       -> 28800
      [] loc = "Asia/Kolkata"        -> 19800
      [] OTHER -> FixedZoneOffset(loc)

\* the Gregorian leap-year rule of package time
isLeap(y) == y % 4 = 0 /\ (y % 100 # 0 \/ y % 400 = 0)

\* days before month m (1..13) in a non-leap year
daysBefore ==
    <<0, 31, 59, 90, 120, 151, 181, 212, 243, 273, 304, 334, 365>>

\* days from 0001-01-01 to the first day of year y
DaysBeforeYear(y) ==
    365 * (y - 1) + ((y - 1) \div 4) - ((y - 1) \div 100) + ((y - 1) \div 400)

\* days from the start of year y to the first day of month m (1..13)
MonthStart(y, m) == daysBefore[m] + (IF m > 2 /\ isLeap(y) THEN 1 ELSE 0)

\* day number of the civil date y-m-d, m in 1..12, d any integer
DaysFromCivil(y, m, d) == DaysBeforeYear(y) + MonthStart(y, m) + (d - 1)

Min(a, b) == IF a < b THEN a ELSE b

\* the month in which day yday (0-based) of year y lies
MonthOf(y, yday) ==
    CHOOSE m \in 1..12 : MonthStart(y, m) <= yday /\ yday < MonthStart(y, m + 1)

\* the civil date [y, m, d] of day yday (0-based) of year y
CivilInYear(y, yday) ==
    [y |-> y, m |-> MonthOf(y, yday),
     d |-> yday - MonthStart(y, MonthOf(y, yday)) + 1]

\* the civil date of day r100 of the century that starts after year y0
CivilInCentury(y0, r100) ==
    CivilInYear(y0 + 4 * (r100 \div 1461)
                   + Min((r100 % 1461) \div 365, 3) + 1,
                (r100 % 1461) - 365 * Min((r100 % 1461) \div 365, 3))

\* the civil date [y, m, d] of day number n
CivilFromDays(n) ==
    CivilInCentury(400 * (n \div 146097)
                       + 100 * Min((n % 146097) \div 36524, 3),
                   (n % 146097) - 36524 * Min((n % 146097) \div 36524, 3))

\* time.Date: out-of-range months, days and clock values are normalised
Date(y, m, d, h, mi, s, ns, loc) ==
    LET yN    == y + ((m - 1) \div 12)
        mN    == ((m - 1) % 12) + 1
        total == h * 3600 + mi * 60 + s - ZoneOffset(loc)
    IN  [day |-> DaysFromCivil(yN, mN, d) + (total \div 86400),
         sec |-> total % 86400,
         ns  |-> ns,
         loc |-> loc]

\* day number and second of the day shown by t in its own location
WallDay(t) == t.day + ((t.sec + ZoneOffset(t.loc)) \div 86400)
WallSec(t) == (t.sec + ZoneOffset(t.loc)) % 86400

Year(t)   == CivilFromDays(WallDay(t)).y
Month(t)  == CivilFromDays(WallDay(t)).m
Day(t)    == CivilFromDays(WallDay(t)).d
Hour(t)   == WallSec(t) \div 3600
Minute(t) == (WallSec(t) % 3600) \div 60
Second(t) == WallSec(t) % 60

\* time.Weekday: 0 = Sunday .. 6 = Saturday (0001-01-01 was a Monday)
Weekday(t) == (WallDay(t) + 1) % 7

\* Time.AddDate
AddDate(t, years, months, days) ==
    Date(Year(t) + years, Month(t) + months, Day(t) + days,
         Hour(t), Minute(t), Second(t), t.ns, t.loc)

\* Time.Add for a duration of whole seconds
AddSeconds(t, secs) ==
    [t EXCEPT !.day = t.day + ((t.sec + secs) \div 86400),
              !.sec = (t.sec + secs) % 86400]

\* Time.In
In(t, loc) == [t EXCEPT !.loc = loc]

\* the zero time.Time returned together with an error
ZeroTime == [day |-> 0, sec |-> 0, ns |-> 0, loc |-> "UTC"]

\* daysInMonth of the parser: the day before the first of the next month
daysInMonth(year, month) ==
    Day(AddDate(Date(year, month + 1, 1, 0, 0, 0, 0, "UTC"), 0, 0, 0 - 1))

\* time.Date with the year, month and day of t (in the location of t),
\* the given clock and location
OnDateOf(t, h, mi, s, ns, loc) ==
    Date(Year(t), Month(t), Day(t), h, mi, s, ns, loc)

(***************************************************************************)
(* Tokenizer                                                               *)
(***************************************************************************)

\* isOperator
isOperator(r) == r \in {"+", "-", ":", "/", "."}

\* isPunctuation
isPunctuation(r) == r \in {",", ";", "(", ")", "[", "]"}

\* the class of one character, rules checked in the order of the switch
CharType(r) ==
    IF IsSpace(r) THEN "Whitespace"
    ELSE IF IsDigit(r) THEN "Number"
    ELSE IF isOperator(r) THEN "Operator"
    ELSE IF isPunctuation(r) THEN "Punctuation"
    ELSE "String"

\* the loop of Tokenize from (1-based) character i on; cur/curType/pos are
\* currentToken, currentType and pos of the code, acc the tokens so far
RECURSIVE TokenizeFrom(_, _, _, _, _, _)
TokenizeFrom(s, i, cur, curType, pos, acc) ==
    IF i > Len(s)
    THEN IF cur # ""
         THEN Append(acc, [Val |-> cur, Typ |-> curType, Pos |-> pos])
         ELSE acc
    ELSE LET r       == Ch(s, i)
             newType == CharType(r)
             change  == i = 1 \/ newType # curType
             acc2    == IF change /\ cur # ""
                        THEN Append(acc,
                                 [Val |-> cur, Typ |-> curType, Pos |-> pos])
                        ELSE acc
         IN  TokenizeFrom(s, i + 1,
                          (IF change THEN "" ELSE cur) \o r,
                          IF change THEN newType ELSE curType,
                          IF change THEN i - 1 ELSE pos,
                          acc2)

Tokenize(s) == TokenizeFrom(s, 1, "", "None", 0, <<>>)

(***************************************************************************)
(* Tokenizer over bytes.  A Go string is a sequence of bytes and Tokenize  *)
(* ranges over its runes; Tokenize above is the same loop on ASCII text,   *)
(* where every rune is one byte.  Below a string is a sequence of numbers  *)
(* in 0..255 and a rune is its code point.                                 *)
(***************************************************************************)

\* utf8.RuneError, what range yields for a byte that starts no encoding
RuneError == 65533

\* the second byte an encoding of three bytes may have after first byte b
SecondOfThree(b) ==
    IF b = 224 THEN 160..191 ELSE IF b = 237 THEN 128..159 ELSE 128..191

\* the second byte an encoding of four bytes may have after first byte b
SecondOfFour(b) ==
    IF b = 240 THEN 144..191 ELSE IF b = 244 THEN 128..143 ELSE 128..191

\* byte i of s, 0 behind its end
ByteAt(s, i) == IF i <= Len(s) THEN s[i] ELSE 0

\* "for i, r := range s" at (1-based) byte i: the rune r decoded there and
\* the number w of bytes it takes; a faulty encoding yields RuneError and
\* takes one byte
RuneAt(s, i) ==
    IF s[i] < 128 THEN [r |-> s[i], w |-> 1]
    ELSE IF s[i] \in 194..223 /\ ByteAt(s, i + 1) \in 128..191
    THEN [r |-> (s[i] - 192) * 64 + (s[i + 1] - 128), w |-> 2]
    ELSE IF /\ s[i] \in 224..239
            /\ ByteAt(s, i + 1) \in SecondOfThree(s[i])
            /\ ByteAt(s, i + 2) \in 128..191
    THEN [r |-> (s[i] - 224) * 4096 + (s[i + 1] - 128) * 64
                + (s[i + 2] - 128), w |-> 3]
    ELSE IF /\ s[i] \in 240..244
            /\ ByteAt(s, i + 1) \in SecondOfFour(s[i])
            /\ ByteAt(s, i + 2) \in 128..191
            /\ ByteAt(s, i + 3) \in 128..191
    THEN [r |-> (s[i] - 240) * 262144 + (s[i + 1] - 128) * 4096
                + (s[i + 2] - 128) * 64 + (s[i + 3] - 128), w |-> 4]
    ELSE [r |-> RuneError, w |-> 1]

\* strings.Builder.WriteRune: the bytes that encode rune r
WriteRune(r) ==
    IF r < 128 THEN <<r>>
    ELSE IF r < 2048 THEN <<192 + (r \div 64), 128 + (r % 64)>>
    ELSE IF r < 65536
    THEN <<224 + (r \div 4096), 128 + ((r \div 64) % 64), 128 + (r % 64)>>
    ELSE <<240 + (r \div 262144), 128 + ((r \div 4096) % 64),
           128 + ((r \div 64) % 64), 128 + (r % 64)>>

\* unicode.IsSpace
IsSpaceRune(r) ==
    \/ r \in 9..13 \/ r = 32 \/ r = 133 \/ r = 160 \/ r = 5760
    \/ r \in 8192..8202 \/ r \in {8232, 8233, 8239, 8287, 12288}

\* unicode.IsDigit for the runes below U+0800 (the decimal digits of the
\* scripts above are not listed)
IsDigitRune(r) ==
    r \in 48..57 \/ r \in 1632..1641 \/ r \in 1776..1785 \/ r \in 1984..1993

\* a tokenizer that takes the full stop for punctuation
RuneType_StopIsPunctuation(r) ==
    IF IsSpaceRune(r) THEN "Whitespace"
    ELSE IF IsDigitRune(r) THEN "Number"
    ELSE IF r \in {43, 45, 58, 47} THEN "Operator"
    ELSE IF r \in {46, 44, 59, 40, 41, 91, 93} THEN "Punctuation"
    ELSE "String"

\* the switch of Tokenize with isOperator (+ - : / .) and isPunctuation
\* (, ; ( ) [ ]) on code points
RuneType(r) ==
    IF IsSpaceRune(r) THEN "Whitespace"
    ELSE IF IsDigitRune(r) THEN "Number"
    ELSE IF r \in {43, 45, 58, 47, 46} THEN "Operator"
    ELSE IF r \in {44, 59, 40, 41, 91, 93} THEN "Punctuation"
    ELSE "String"

\* the tokens so far with currentToken added when it is not empty
Flushed(acc, cur, curType, pos) ==
    IF cur # <<>> THEN Append(acc, [Val |-> cur, Typ |-> curType, Pos |-> pos])
    ELSE acc

\* the loop of Tokenize from (1-based) byte i on; cur/curType/pos are
\* currentToken, currentType and pos of the code, acc the tokens so far
RECURSIVE TokenizeBytesFrom(_, _, _, _, _, _)
TokenizeBytesFrom(s, i, cur, curType, pos, acc) ==
    IF i > Len(s) THEN Flushed(acc, cur, curType, pos)
    ELSE IF i = 1 \/ RuneType(RuneAt(s, i).r) # curType
    THEN TokenizeBytesFrom(s, i + RuneAt(s, i).w, WriteRune(RuneAt(s, i).r),
                           RuneType(RuneAt(s, i).r), i - 1,
                           Flushed(acc, cur, curType, pos))
    ELSE TokenizeBytesFrom(s, i + RuneAt(s, i).w,
                           cur \o WriteRune(RuneAt(s, i).r), curType, pos,
                           acc)

\* Tokenize on the bytes of a string
TokenizeBytes(s) == TokenizeBytesFrom(s, 1, <<>>, "None", 0, <<>>)

(***************************************************************************)
(* Timezone resolver                                                       *)
(***************************************************************************)

\* timezoneAbbreviations: abbreviation -> location
timezoneAbbreviations ==
    [est  |-> "America/New_York",    edt  |-> "America/New_York",
     cst  |-> "America/Chicago",     cdt  |-> "America/Chicago",
     mst  |-> "America/Denver",      mdt  |-> "America/Denver",
     pst  |-> "America/Los_Angeles", pdt  |-> "America/Los_Angeles",
     akst |-> "America/Anchorage",   akdt |-> "America/Anchorage",
     hst  |-> "Pacific/Honolulu",
     gmt  |-> "Europe/London",       bst  |-> "Europe/London",
     iet  |-> "Europe/Dublin",
     cet  |-> "Europe/Paris",        cest |-> "Europe/Paris",
     eet  |-> "Europe/Helsinki",     eest |-> "Europe/Helsinki",
     awst |-> "Australia/Perth",     acst |-> "Australia/Adelaide",
     aest |-> "Australia/Sydney",    aedt |-> "Australia/Sydney",
     jst  |-> "Asia/Tokyo",          ct   |-> "Asia/Shanghai",
     ist  |-> "Asia/Kolkata",
     utc  |-> "UTC",                 z    |-> "UTC"]

\* timezoneNames: full name -> zone identifier
timezoneNames ==
    ("eastern time" :> "America/New_York") @@ ("et" :> "America/New_York")
    @@ ("eastern" :> "America/New_York")
    @@ ("central time" :> "America/Chicago") @@ ("ct" :> "America/Chicago")
    @@ ("central" :> "America/Chicago")
    @@ ("mountain time" :> "America/Denver") @@ ("mt" :> "America/Denver")
    @@ ("mountain" :> "America/Denver")
    @@ ("pacific time" :> "America/Los_Angeles")
    @@ ("pt" :> "America/Los_Angeles") @@ ("pacific" :> "America/Los_Angeles")
    @@ ("alaska time" :> "America/Anchorage")
    @@ ("alaska" :> "America/Anchorage")
    @@ ("hawaii time" :> "Pacific/Honolulu")
    @@ ("hawaii" :> "Pacific/Honolulu")
    @@ ("greenwich mean time" :> "Europe/London")
    @@ ("british time" :> "Europe/London") @@ ("british" :> "Europe/London")
    @@ ("western european time" :> "Europe/London")
    @@ ("central european time" :> "Europe/Paris")
    @@ ("eastern european time" :> "Europe/Helsinki")
    @@ ("australian western time" :> "Australia/Perth")
    @@ ("australian central time" :> "Australia/Adelaide")
    @@ ("australian eastern time" :> "Australia/Sydney")
    @@ ("japan time" :> "Asia/Tokyo") @@ ("china time" :> "Asia/Shanghai")
    @@ ("india time" :> "Asia/Kolkata") @@ ("india" :> "Asia/Kolkata")
    @@ ("universal time" :> "UTC")
    @@ ("universal coordinated time" :> "UTC")
    @@ ("zulu time" :> "UTC") @@ ("zulu" :> "UTC")

\* isValidTimezoneChar
isValidTimezoneChar(c) ==
    IsLetter(c) \/ IsDigit(c) \/ c \in {"/", "_", "-", "+", " "}

UpperOf(c) ==
    CASE c = "a" -> "A" [] c = "b" -> "B" [] c = "c" -> "C" [] c = "d" -> "D"
      [] c = "e" -> "E" [] c = "f" -> "F" [] c = "g" -> "G" [] c = "h" -> "H"
      [] c = "i" -> "I" [] c = "j" -> "J" [] c = "k" -> "K" [] c = "l" -> "L"
      [] c = "m" -> "M" [] c = "n" -> "N" [] c = "o" -> "O" [] c = "p" -> "P"
      [] c = "q" -> "Q" [] c = "r" -> "R" [] c = "s" -> "S" [] c = "t" -> "T"
      [] c = "u" -> "U" [] c = "v" -> "V" [] c = "w" -> "W" [] c = "x" -> "X"
      [] c = "y" -> "Y" [] c = "z" -> "Z" [] OTHER -> c

\* strings.Title: the first letter of every word in upper case; letters,
\* digits and the underscore do not separate words
RECURSIVE TitleFrom(_, _, _)
TitleFrom(s, i, prevSep) ==
    IF i > Len(s) THEN ""
    ELSE LET c == Ch(s, i)
         IN  (IF prevSep THEN UpperOf(c) ELSE c)
             \o TitleFrom(s, i + 1, ~(IsLetter(c) \/ IsDigit(c) \/ c = "_"))

Title(s) == TitleFrom(s, 1, TRUE)

\* strings.ReplaceAll for one-character strings
RECURSIVE ReplaceChar(_, _, _)
ReplaceChar(s, from, to) ==
    IF s = "" THEN ""
    ELSE (IF Ch(s, 1) = from THEN to ELSE Ch(s, 1))
         \o ReplaceChar(SubSeq(s, 2, Len(s)), from, to)

\* time.LoadLocation against the host zone database
LoadLocation(name) ==
    IF name = "" THEN [ok |-> TRUE, loc |-> "UTC"]
    ELSE IF name \in HostZones THEN [ok |-> TRUE, loc |-> name]
    ELSE [ok |-> FALSE, loc |-> "UTC"]

NotFound == [found |-> FALSE, loc |-> "UTC"]

\* tryParseTimezone(tzString): the resolver strategies in order
tryParseTimezone(tzString) ==
    LET tzLower == ToLower(tzString)
        direct  == LoadLocation(tzString)
        parts   == Split(tzString, "/")
        proper  == LoadLocation(Title(ToLower(parts[1])) \o "/"
                                \o Title(ToLower(parts[2])))
        parts5  == Split(ReplaceChar(tzString, "_", " "), "/")
        proper5 == LoadLocation(Title(ToLower(parts5[1])) \o "/"
                     \o ReplaceChar(Title(ToLower(parts5[2])), " ", "_"))
    IN  IF Len(tzString) < 2 THEN NotFound
        ELSE IF \E i \in 1..Len(tzString) :
                    ~isValidTimezoneChar(Ch(tzString, i)) THEN NotFound
        ELSE IF tzLower = "america/new_york"
             THEN [found |-> TRUE, loc |-> "America/New_York"]
        ELSE IF tzLower \in DOMAIN timezoneAbbreviations
             THEN [found |-> TRUE, loc |-> timezoneAbbreviations[tzLower]]
        ELSE IF tzLower \in DOMAIN timezoneNames
                /\ LoadLocation(timezoneNames[tzLower]).ok
             THEN [found |-> TRUE, loc |-> timezoneNames[tzLower]]
        ELSE IF direct.ok THEN [found |-> TRUE, loc |-> direct.loc]
        ELSE IF Len(parts) = 2 /\ (parts[1] = "" \/ parts[2] = "")
             THEN NotFound
        ELSE IF Len(parts) = 2 /\ proper.ok
             THEN [found |-> TRUE, loc |-> proper.loc]
        ELSE IF ContainsChar(tzString, "_") /\ Len(parts5) = 2
                /\ (parts5[1] = "" \/ parts5[2] = "")
             THEN NotFound
        ELSE IF ContainsChar(tzString, "_") /\ Len(parts5) = 2 /\ proper5.ok
             THEN [found |-> TRUE, loc |-> proper5.loc]
        ELSE NotFound

(***************************************************************************)
(* Date validity and name tables                                           *)
(***************************************************************************)

\* IsLeapYear: divisible by 4, not by 100 unless by 400
IsLeapYear(year) == year % 4 = 0 /\ (year % 100 # 0 \/ year % 400 = 0)

\* DaysInMonth of the date-validity utilities
DaysInMonth(year, month) ==
    IF month \in {4, 6, 9, 11} THEN 30
    ELSE IF month = 2 THEN (IF IsLeapYear(year) THEN 29 ELSE 28)
    ELSE 31

\* IsValidDate: year in 1..9999, month in 1..12, day exists in that month
IsValidDate(year, month, day) ==
    /\ year >= 1 /\ year <= 9999
    /\ month >= 1 /\ month <= 12
    /\ day >= 1 /\ day <= DaysInMonth(year, month)

\* IsValidTime: clock components in range
IsValidTime(hour, minute, second) ==
    /\ hour >= 0 /\ hour <= 23
    /\ minute >= 0 /\ minute <= 59
    /\ second >= 0 /\ second <= 59

\* the monthNames map of getMonthByName
monthNames ==
    [january |-> 1, jan |-> 1, february |-> 2, feb |-> 2, march |-> 3,
     mar |-> 3, april |-> 4, apr |-> 4, may |-> 5, june |-> 6, jun |-> 6,
     july |-> 7, jul |-> 7, august |-> 8, aug |-> 8, september |-> 9,
     sep |-> 9, october |-> 10, oct |-> 10, november |-> 11, nov |-> 11,
     december |-> 12, dec |-> 12]

\* getMonthByName
getMonthByName(name) ==
    IF ToLower(name) \in DOMAIN monthNames
    THEN [ok |-> TRUE, month |-> monthNames[ToLower(name)]]
    ELSE [ok |-> FALSE, month |-> 0]

\* getDayOfWeek: 0 = Sunday .. 6 = Saturday, -1 when unknown
getDayOfWeek(day) ==
    LET d == ToLower(day)
    IN  CASE d \in {"sunday", "sun"}    -> 0
          [] d \in {"monday", "mon"}    -> 1
          [] d \in {"tuesday", "tue"}   -> 2
          [] d \in {"wednesday", "wed"} -> 3
          [] d \in {"thursday", "thu"}  -> 4
          [] d \in {"friday", "fri"}    -> 5
          [] d \in {"saturday", "sat"}  -> 6
          [] OTHER -> 0 - 1

\* a window that puts every year below 100 into the 2000s
parseTwoDigitYear_NoPivot(year) ==
    IF year < 100 THEN year + 2000 ELSE year

\* parseTwoDigitYear
parseTwoDigitYear(year) ==
    IF year < 100 THEN (IF year < 70 THEN year + 2000 ELSE year + 1900)
    ELSE year

\* the unitMap of normalizeTimeUnit
unitMap ==
    ("d" :> "day") @@ ("day" :> "day") @@ ("days" :> "day")
    @@ ("days." :> "day")
    @@ ("w" :> "week") @@ ("wk" :> "week") @@ ("wks" :> "week")
    @@ ("wks." :> "week") @@ ("week" :> "week") @@ ("weeks" :> "week")
    @@ ("m" :> "month") @@ ("mon" :> "month") @@ ("mons" :> "month")
    @@ ("mons." :> "month") @@ ("month" :> "month") @@ ("months" :> "month")
    @@ ("y" :> "year") @@ ("yr" :> "year") @@ ("yrs" :> "year")
    @@ ("yrs." :> "year") @@ ("year" :> "year") @@ ("years" :> "year")
    @@ ("h" :> "hour") @@ ("hr" :> "hour") @@ ("hrs" :> "hour")
    @@ ("hrs." :> "hour") @@ ("hour" :> "hour") @@ ("hours" :> "hour")
    @@ ("hourss" :> "hour")
    @@ ("min" :> "minute") @@ ("mins" :> "minute") @@ ("mins." :> "minute")
    @@ ("minute" :> "minute") @@ ("minutes" :> "minute")
    @@ ("sec" :> "second") @@ ("secs" :> "second") @@ ("secs." :> "second")
    @@ ("second" :> "second") @@ ("seconds" :> "second")

\* normalizeTimeUnit
normalizeTimeUnit(unit) ==
    LET lowerUnit == ToLower(unit)
        trimmed   == IF HasSuffix(lowerUnit, "s")
                     THEN SubSeq(lowerUnit, 1, Len(lowerUnit) - 1)
                     ELSE lowerUnit
    IN  IF lowerUnit \in DOMAIN unitMap THEN unitMap[lowerUnit]
        ELSE IF trimmed \in DOMAIN unitMap THEN unitMap[trimmed]
        ELSE IF HasPrefix(lowerUnit, "day") THEN "day"
        ELSE IF HasPrefix(lowerUnit, "week") THEN "week"
        ELSE IF HasPrefix(lowerUnit, "month") THEN "month"
        ELSE IF HasPrefix(lowerUnit, "year") THEN "year"
        ELSE IF HasPrefix(lowerUnit, "hour") \/ HasPrefix(lowerUnit, "hr")
             THEN "hour"
        ELSE IF HasPrefix(lowerUnit, "min") THEN "minute"
        ELSE IF HasPrefix(lowerUnit, "sec") THEN "second"
        ELSE unit

(***************************************************************************)
(* Parser: the token-stream recognisers.  A Parser is the record           *)
(* [tokens, position, result, loc, tzFound]; position is 0-based.  A       *)
(* recogniser returns [p, t, ok, err]: the parser with the cursor where    *)
(* the code left it, the time, the match flag and the error ("" = nil).    *)
(***************************************************************************)

NumTokens(p) == Len(p.tokens)

\* p.tokens[i] of the code (0-based)
Tok(p, i) == p.tokens[i + 1]

NoMatch(p) == [p |-> p, t |-> ZeroTime, ok |-> FALSE, err |-> ""]

Fail(p, e) == [p |-> p, t |-> ZeroTime, ok |-> FALSE, err |-> e]

Matched(p, t) == [p |-> p, t |-> t, ok |-> TRUE, err |-> ""]

\* Parser.skipWhitespace
RECURSIVE skipWhitespace(_)
skipWhitespace(p) ==
    IF p.position < NumTokens(p) /\ Tok(p, p.position).Typ = "Whitespace"
    THEN skipWhitespace([p EXCEPT !.position = p.position + 1])
    ELSE p

\* a resolved zone that leaves the cursor on the zone token
ZoneConsumed_StaysPut(p, loc, n) ==
    [p EXCEPT !.loc = loc, !.tzFound = TRUE, !.result = In(p.result, loc)]

\* a resolved zone that moves the cursor one token too far
ZoneConsumed_Overshoots(p, loc, n) ==
    [p EXCEPT !.loc = loc, !.tzFound = TRUE, !.position = p.position + n + 1,
              !.result = In(p.result, loc)]

\* the effect of a resolved zone of n tokens on the parser
ZoneConsumed(p, loc, n) ==
    [p EXCEPT !.loc = loc, !.tzFound = TRUE, !.position = p.position + n,
              !.result = In(p.result, loc)]

\* Parser.tryParseTimezone: one word, then word "/" word, then two words;
\* the cursor moves only when a zone was resolved
Parser_tryParseTimezone(p) ==
    LET pos == p.position
        Triple(mid) ==
            /\ pos + 2 < NumTokens(p)
            /\ Tok(p, pos).Typ = "String"
            /\ Tok(p, pos + 1).Typ = mid
            /\ Tok(p, pos + 2).Typ = "String"
        Pick(single, slash, words) ==
            IF single.found
            THEN [p |-> ZoneConsumed(p, single.loc, 1), ok |-> TRUE]
            ELSE IF slash.found
            THEN [p |-> ZoneConsumed(p, slash.loc, 3), ok |-> TRUE]
            ELSE IF words.found
            THEN [p |-> ZoneConsumed(p, words.loc, 3), ok |-> TRUE]
            ELSE [p |-> p, ok |-> FALSE]
    IN  IF pos >= NumTokens(p) THEN [p |-> p, ok |-> FALSE]
        ELSE Pick(IF Tok(p, pos).Typ = "String"
                  THEN tryParseTimezone(Tok(p, pos).Val) ELSE NotFound,
                  IF Triple("Operator") /\ Tok(p, pos + 1).Val = "/"
                  THEN tryParseTimezone(Tok(p, pos).Val \o "/"
                                        \o Tok(p, pos + 2).Val)
                  ELSE NotFound,
                  IF Triple("Whitespace")
                  THEN tryParseTimezone(Tok(p, pos).Val \o " "
                                        \o Tok(p, pos + 2).Val)
                  ELSE NotFound)

\* Parser.tryParseStandardDate
tryParseStandardDate(p) ==
    LET pos       == p.position
        first     == Atoi(Tok(p, pos).Val)
        second    == Atoi(Tok(p, pos + 2).Val)
        third     == Atoi(Tok(p, pos + 4).Val)
        separator == Tok(p, pos + 1).Val
        firstLen  == Len(Tok(p, pos).Val)
        thirdLen  == Len(Tok(p, pos + 4).Val)
        shape     == CASE separator = "-" /\ firstLen = 4 -> "ymd"
                       [] separator = "/" /\ firstLen = 4 -> "ymd"
                       [] separator = "/" /\ firstLen # 4 /\ thirdLen = 4
                            -> "mdy"
                       [] separator = "." -> "dmy"
                       [] OTHER -> "none"
        year      == CASE shape = "ymd" -> first.v
                       [] shape = "mdy" -> third.v
                       [] OTHER -> IF third.v < 100
                                   THEN parseTwoDigitYear(third.v)
                                   ELSE third.v
        month     == IF shape = "mdy" THEN first.v ELSE second.v
        day       == CASE shape = "ymd" -> third.v
                       [] shape = "mdy" -> second.v
                       [] OTHER -> first.v
    IN  IF pos + 4 >= NumTokens(p) THEN NoMatch(p)
        ELSE IF \/ Tok(p, pos).Typ # "Number"
                \/ Tok(p, pos + 2).Typ # "Number"
                \/ Tok(p, pos + 4).Typ # "Number" THEN NoMatch(p)
        ELSE IF ~first.ok \/ ~second.ok \/ ~third.ok
             THEN Fail(p, "invalid number in date")
        ELSE IF \/ Tok(p, pos + 1).Typ # "Operator"
                \/ Tok(p, pos + 3).Typ # "Operator" THEN NoMatch(p)
        ELSE IF separator # Tok(p, pos + 3).Val THEN NoMatch(p)
        ELSE IF shape = "none" THEN NoMatch(p)
        ELSE IF ~IsValidDate(year, month, day)
             THEN Fail(p, "InvalidDate")
        ELSE Matched([p EXCEPT !.position = pos + 5],
                     Date(year, month, day, 0, 0, 0, 0, p.loc))

\* the day-offset table of "next week", keyed by the current weekday
NextWeekDaysToAdd(dayOfWeek) ==
    CASE dayOfWeek = 0 -> 1 [] dayOfWeek = 1 -> 0 [] dayOfWeek = 2 -> 6
      [] dayOfWeek = 3 -> 5 [] dayOfWeek = 4 -> 4 [] dayOfWeek = 5 -> 3
      [] dayOfWeek = 6 -> 2

\* the day-offset table of "last week", keyed by the current weekday
LastWeekDaysToSubtract(dayOfWeek) ==
    CASE dayOfWeek = 0 -> 6 [] dayOfWeek = 1 -> 7 [] dayOfWeek = 2 -> 8
      [] dayOfWeek = 3 -> 9 [] dayOfWeek = 4 -> 10 [] dayOfWeek = 5 -> 11
      [] dayOfWeek = 6 -> 12

\* the distance to the weekday without the full week for a zero distance
WeekdayDistance_NoFullWeek(isNext, dayNum, currentDay) ==
    IF isNext THEN (dayNum - currentDay + 7) % 7
    ELSE (currentDay - dayNum + 7) % 7

\* "next"/"last" + weekday: the days to move, never zero
WeekdayDistance(isNext, dayNum, currentDay) ==
    LET raw == IF isNext THEN (dayNum - currentDay + 7) % 7
               ELSE (currentDay - dayNum + 7) % 7
    IN  IF raw = 0 THEN 7 ELSE raw

\* midnight of the date of t, in location loc
Midnight(t, loc) == OnDateOf(t, 0, 0, 0, 0, loc)

\* Parser.tryParseNextLastExpression
tryParseNextLastExpression(p) ==
    LET token  == Tok(p, p.position)
        isNext == token.Val = "next"
        p1     == skipWhitespace([p EXCEPT !.position = p.position + 1])
        unitToken == Tok(p1, p1.position)
        p2     == [p1 EXCEPT !.position = p1.position + 1]
        dayNum == getDayOfWeek(unitToken.Val)
        currentDay == Weekday(p.result)
        dist   == WeekdayDistance(isNext, dayNum, currentDay)
    IN  IF p.position >= NumTokens(p) THEN NoMatch(p)
        ELSE IF token.Typ # "String" \/ token.Val \notin {"next", "last"}
             THEN NoMatch(p)
        ELSE IF p1.position >= NumTokens(p1)
             THEN Fail(p1, "ErrExpectedTimeUnit")
        ELSE IF unitToken.Typ # "String"
             THEN Fail(p1, "ErrExpectedTimeUnit")
        ELSE IF unitToken.Val = "week"
             THEN IF isNext
                  THEN Matched(p2, AddDate(p.result, 0, 0,
                                   NextWeekDaysToAdd(currentDay)))
                  ELSE Matched(p2, AddDate(p.result, 0, 0,
                                   0 - LastWeekDaysToSubtract(currentDay)))
        ELSE IF dayNum >= 0
             THEN Matched(p2, Midnight(AddDate(p.result, 0, 0,
                                  IF isNext THEN dist ELSE 0 - dist), p.loc))
        ELSE IF unitToken.Val = "month"
             THEN Matched(p2, AddDate(p.result, 0,
                                      IF isNext THEN 1 ELSE 0 - 1, 0))
        ELSE IF unitToken.Val = "year"
             THEN Matched(p2, AddDate(p.result,
                                      IF isNext THEN 1 ELSE 0 - 1, 0, 0))
        ELSE Fail(p2, "ErrInvalidTimeUnit")

\* the last day of the month of m, with the clock and nanoseconds of t
MonthEndOf(m, t, loc) ==
    Date(Year(m), Month(m), daysInMonth(Year(m), Month(m)),
         Hour(t), Minute(t), Second(t), t.ns, loc)

\* handleMonthEndDates: [t, handled]; from the last day of a month, the
\* last day of the month that AddDate lands in
handleMonthEndDates(t, amount, loc) ==
    IF Day(t) = daysInMonth(Year(t), Month(t))
    THEN [t |-> MonthEndOf(AddDate(t, 0, amount, 0), t, loc),
          handled |-> TRUE]
    ELSE [t |-> t, handled |-> FALSE]

\* the switch of applyTimeUnitOffset on the normalised unit; monthEnd is
\* what handleMonthEndDates returned: [t, err]
OffsetByUnit(t, amount, unit, monthEnd) ==
    CASE unit = "day"    -> [t |-> AddDate(t, 0, 0, amount), err |-> ""]
      [] unit = "week"   -> [t |-> AddDate(t, 0, 0, amount * 7), err |-> ""]
      [] unit = "month"  -> IF monthEnd.handled
                            THEN [t |-> monthEnd.t, err |-> ""]
                            ELSE [t |-> AddDate(t, 0, amount, 0), err |-> ""]
      [] unit = "year"   -> [t |-> AddDate(t, amount, 0, 0), err |-> ""]
      [] unit = "hour"   -> [t |-> AddSeconds(t, amount * 3600), err |-> ""]
      [] unit = "minute" -> [t |-> AddSeconds(t, amount * 60), err |-> ""]
      [] unit = "second" -> [t |-> AddSeconds(t, amount), err |-> ""]
      [] OTHER -> [t |-> ZeroTime, err |-> "ErrInvalidTimeUnit"]

\* Parser.applyTimeUnitOffset: [t, err]
applyTimeUnitOffset(p, amount, unitStr) ==
    OffsetByUnit(p.result, amount, normalizeTimeUnit(unitStr),
                 handleMonthEndDates(p.result, amount, p.loc))

\* what a relative recogniser returns for the result r of
\* applyTimeUnitOffset, the cursor being behind the unit
OffsetApplied(p, r) ==
    IF r.err # "" THEN Fail(p, r.err) ELSE Matched(p, r.t)

\* the common tail of the two relative recognisers: the cursor is behind
\* the amount; skip whitespace, take the unit word, apply the offset
RelativeTail(p, amount) ==
    LET p1        == skipWhitespace(p)
        unitToken == Tok(p1, p1.position)
        p2        == [p1 EXCEPT !.position = p1.position + 1]
    IN  IF p1.position >= NumTokens(p1) THEN Fail(p1, "ErrExpectedTimeUnit")
        ELSE IF unitToken.Typ # "String" THEN Fail(p1, "ErrExpectedTimeUnit")
        ELSE OffsetApplied(p2, applyTimeUnitOffset(p2, amount, unitToken.Val))

\* Parser.tryParseRelativeTime
tryParseRelativeTime(p) ==
    LET token == Tok(p, p.position)
        sign  == IF token.Val = "-" THEN 0 - 1 ELSE 1
        p1    == [p EXCEPT !.position = p.position + 1]
        amountToken == Tok(p1, p1.position)
        amount == Atoi(amountToken.Val)
    IN  IF p.position >= NumTokens(p) THEN NoMatch(p)
        ELSE IF token.Typ # "Operator" \/ token.Val \notin {"+", "-"}
             THEN NoMatch(p)
        ELSE IF p1.position >= NumTokens(p1) THEN Fail(p1, "ErrMissingAmount")
        ELSE IF amountToken.Typ # "Number" THEN Fail(p1, "expected number")
        ELSE IF ~amount.ok THEN Fail(p1, "ErrInvalidNumber")
        ELSE RelativeTail([p1 EXCEPT !.position = p1.position + 1],
                          amount.v * sign)

\* an implicit clause read as an offset into the past
tryParseImplicitRelativeTime_Negative(p) ==
    LET token  == Tok(p, p.position)
        amount == Atoi(token.Val)
    IN  IF p.position >= NumTokens(p) THEN NoMatch(p)
        ELSE IF token.Typ # "Number" THEN NoMatch(p)
        ELSE IF ~amount.ok THEN Fail(p, "ErrInvalidNumber")
        ELSE RelativeTail([p EXCEPT !.position = p.position + 1],
                          0 - amount.v)

\* Parser.tryParseImplicitRelativeTime
tryParseImplicitRelativeTime(p) ==
    LET token  == Tok(p, p.position)
        amount == Atoi(token.Val)
    IN  IF p.position >= NumTokens(p) THEN NoMatch(p)
        ELSE IF token.Typ # "Number" THEN NoMatch(p)
        ELSE IF ~amount.ok THEN Fail(p, "ErrInvalidNumber")
        ELSE RelativeTail([p EXCEPT !.position = p.position + 1], amount.v)

\* Parser.tryParseMonthOnlyFormat
tryParseMonthOnlyFormat(p) ==
    LET pos        == p.position
        monthToken == Tok(p, pos)
        mon        == getMonthByName(monthToken.Val)
    IN  IF pos >= NumTokens(p) THEN NoMatch(p)
        ELSE IF pos + 1 < NumTokens(p) /\ Tok(p, pos + 1).Typ = "Number"
             THEN NoMatch(p)
        ELSE IF /\ pos + 1 < NumTokens(p)
                /\ Tok(p, pos + 1).Typ = "Whitespace"
                /\ pos + 2 < NumTokens(p)
                /\ Tok(p, pos + 2).Typ = "Number" THEN NoMatch(p)
        ELSE IF monthToken.Typ # "String" THEN NoMatch(p)
        ELSE IF ~mon.ok THEN NoMatch(p)
        ELSE Matched([p EXCEPT !.position = pos + 1],
                     Date(Year(p.result), mon.month, 1, 0, 0, 0, 0, p.loc))

\* the optional HH:MM[:SS] of tryParseMonthNameFormat, cursor at p:
\* [p, hour, minute, second]
MonthNameClock(p) ==
    LET pos    == p.position
        hourV  == Atoi(Tok(p, pos).Val)
        minV   == Atoi(Tok(p, pos + 2).Val)
        hourOk == hourV.ok /\ hourV.v >= 0 /\ hourV.v <= 23
        minOk  == minV.ok /\ minV.v >= 0 /\ minV.v <= 59
        hasSec == /\ pos + 5 < NumTokens(p)
                  /\ Tok(p, pos + 3).Typ = "Operator"
                  /\ Tok(p, pos + 3).Val = ":"
                  /\ Tok(p, pos + 4).Typ = "Number"
        secV   == Atoi(Tok(p, pos + 4).Val)
        secOk  == secV.ok /\ secV.v >= 0 /\ secV.v <= 59
    IN  IF ~(/\ pos + 4 < NumTokens(p)
             /\ Tok(p, pos).Typ = "Number"
             /\ Tok(p, pos + 1).Typ = "Operator"
             /\ Tok(p, pos + 1).Val = ":"
             /\ Tok(p, pos + 2).Typ = "Number")
        THEN [p |-> p, hour |-> 0, minute |-> 0, second |-> 0]
        ELSE IF ~hourOk
        THEN [p |-> p, hour |-> 0, minute |-> 0, second |-> 0]
        ELSE IF ~minOk
        THEN [p |-> [p EXCEPT !.position = pos + 2],
              hour |-> hourV.v, minute |-> 0, second |-> 0]
        ELSE IF ~hasSec
        THEN [p |-> [p EXCEPT !.position = pos + 3],
              hour |-> hourV.v, minute |-> minV.v, second |-> 0]
        ELSE IF ~secOk
        THEN [p |-> [p EXCEPT !.position = pos + 4],
              hour |-> hourV.v, minute |-> minV.v, second |-> 0]
        ELSE [p |-> [p EXCEPT !.position = pos + 5],
              hour |-> hourV.v, minute |-> minV.v, second |-> secV.v]

\* tryParseMonthNameFormat behind the optional clock: the optional zone and
\* the time built in the location the parser then has
MonthNameZone(p, year, month, day, clock) ==
    Matched(p, Date(year, month, day, clock.hour, clock.minute, clock.second,
                    0, p.loc))

\* tryParseMonthNameFormat behind day, suffix and punctuation: the
\* optional year, the validity of the date, the optional clock
MonthNameYear(p, month, day, currentYear) ==
    LET hasYear == /\ p.position < NumTokens(p)
                   /\ Tok(p, p.position).Typ = "Number"
        yearVal == Atoi(Tok(p, p.position).Val)
        year    == IF hasYear THEN yearVal.v ELSE currentYear
        p1      == IF hasYear
                   THEN [p EXCEPT !.position = p.position + 1] ELSE p
        clock   == MonthNameClock(skipWhitespace(p1))
    IN  IF hasYear /\ ~yearVal.ok THEN Fail(p, "invalid year")
        ELSE IF ~IsValidDate(year, month, day) THEN Fail(p1, "InvalidDate")
        ELSE MonthNameZone(
                 Parser_tryParseTimezone(skipWhitespace(clock.p)).p,
                 year, month, day, clock)

\* Parser.tryParseMonthNameFormat: month name, day, optional ordinal
\* suffix, optional punctuation, optional year, optional clock, optional
\* zone
tryParseMonthNameFormat(p) ==
    LET monthToken == Tok(p, p.position)
        mon      == getMonthByName(monthToken.Val)
        p1       == skipWhitespace([p EXCEPT !.position = p.position + 1])
        dayToken == Tok(p1, p1.position)
        day      == Atoi(dayToken.Val)
        p2       == [p1 EXCEPT !.position = p1.position + 1]
        p3       == IF /\ p2.position < NumTokens(p2)
                       /\ Tok(p2, p2.position).Typ = "String"
                       /\ ToLower(Tok(p2, p2.position).Val)
                              \in {"st", "nd", "rd", "th"}
                    THEN [p2 EXCEPT !.position = p2.position + 1] ELSE p2
        p4       == IF /\ p3.position < NumTokens(p3)
                       /\ Tok(p3, p3.position).Typ = "Punctuation"
                    THEN [p3 EXCEPT !.position = p3.position + 1] ELSE p3
    IN  IF p.position >= NumTokens(p) THEN NoMatch(p)
        ELSE IF monthToken.Typ # "String" THEN NoMatch(p)
        ELSE IF ~mon.ok THEN NoMatch(p)
        ELSE IF p1.position >= NumTokens(p1) THEN Fail(p1, "ErrMissingDay")
        ELSE IF dayToken.Typ # "Number" THEN Fail(p1, "ErrMissingDay")
        ELSE IF ~day.ok THEN Fail(p1, "invalid day number")
        ELSE MonthNameYear(skipWhitespace(p4), mon.month, day.v,
                           Year(p.result))

\* one recogniser tried in the loop of Parse; p is the parser before the
\* attempt, r what the recogniser returned: [p, parsed, err].  The result
\* of the recogniser is looked at only when it reports a match: an error
\* that comes with ok = false is not seen.
TryExpression(p, r) ==
    IF r.ok
    THEN IF r.err # "" THEN [p |-> r.p, parsed |-> FALSE, err |-> r.err]
         ELSE [p |-> [r.p EXCEPT !.result = r.t], parsed |-> TRUE,
               err |-> ""]
    ELSE [p |-> r.p, parsed |-> FALSE, err |-> ""]

\* the recognisers of the loop of Parse behind the zone, in the order in
\* which the loop tries them
Recogniser(k, p) ==
    CASE k = 1 -> tryParseNextLastExpression(p)
      [] k = 2 -> tryParseRelativeTime(p)
      [] k = 3 -> tryParseImplicitRelativeTime(p)
      [] k = 4 -> tryParseMonthOnlyFormat(p)
      [] k = 5 -> tryParseMonthNameFormat(p)

RECURSIVE TryFrom(_, _)
RECURSIVE TryNext(_, _)

\* the recognisers from the k-th on, each tried while nothing has been
\* parsed, on the parser as the attempts before left it: [p, parsed, err]
TryFrom(p, k) ==
    IF k > 5 THEN [p |-> p, parsed |-> FALSE, err |-> ""]
    ELSE TryNext(TryExpression(p, Recogniser(k, p)), k)

\* after the k-th recogniser
TryNext(st, k) ==
    IF st.parsed \/ st.err # "" THEN st ELSE TryFrom(st.p, k + 1)

\* the zone attempt of the loop (made unless a zone was found before),
\* then the recognisers; tz is what Parser.tryParseTimezone returned
TryZone(p, tz) ==
    IF ~p.tzFound /\ tz.ok
    THEN [p |-> tz.p, parsed |-> TRUE, err |-> ""]
    ELSE TryFrom(p, 1)

\* the end of an iteration: an unrecognized token is skipped, and is an
\* error unless it is whitespace; then whitespace is skipped:
\* [p, err, brk]
LoopEnd(st) ==
    IF st.err # "" THEN [p |-> st.p, err |-> st.err, brk |-> FALSE]
    ELSE IF ~st.parsed /\ st.p.position < NumTokens(st.p)
    THEN IF Tok(st.p, st.p.position).Typ # "Whitespace"
         THEN [p |-> [st.p EXCEPT !.position = st.p.position + 1],
               err |-> "unexpected token", brk |-> FALSE]
         ELSE [p |-> skipWhitespace(
                         [st.p EXCEPT !.position = st.p.position + 1]),
               err |-> "", brk |-> FALSE]
    ELSE [p |-> skipWhitespace(st.p), err |-> "", brk |-> FALSE]

\* one iteration of the loop of Parse, entered with position < len(tokens):
\* [p, err, brk]; brk says that the loop ended at the break
ParseLoopBody(p) ==
    IF skipWhitespace(p).position >= NumTokens(p)
    THEN [p |-> skipWhitespace(p), err |-> "", brk |-> TRUE]
    ELSE LoopEnd(TryZone(skipWhitespace(p),
                         Parser_tryParseTimezone(skipWhitespace(p))))

\* the value a call returns: [ok, t, err]; t is the zero time on error
Ok(t) == [ok |-> TRUE, t |-> t, err |-> ""]

Err(e) == [ok |-> FALSE, t |-> ZeroTime, err |-> e]

RECURSIVE ParseLoop(_)
RECURSIVE LoopNext(_)

\* the loop of Parse run to its end from the parser p
ParseLoop(p) ==
    IF p.position >= NumTokens(p) THEN Ok(p.result)
    ELSE LoopNext(ParseLoopBody(p))

\* after the iteration that returned b
LoopNext(b) ==
    IF b.err # "" THEN Err(b.err)
    ELSE IF b.brk THEN Ok(b.p.result)
    ELSE ParseLoop(b.p)

\* Parse behind the standard-date attempt that returned r
ParseFrom(r) ==
    IF r.ok THEN (IF r.err # "" THEN Err(r.err) ELSE Ok(r.t))
    ELSE ParseLoop(r.p)

\* Parser.Parse
Parse(p) == ParseFrom(tryParseStandardDate(skipWhitespace(p)))

\* the Parser that StrToTime creates
NewParser(str, now, loc) ==
    [tokens |-> Tokenize(str), position |-> 0, result |-> now, loc |-> loc,
     tzFound |-> FALSE]

(***************************************************************************)
(* Whole-string sub-parsers of numeric date literals.  A sub-parser        *)
(* returns [ok, t].                                                        *)
(***************************************************************************)

Declined == [ok |-> FALSE, t |-> ZeroTime]

Accepted(t) == [ok |-> TRUE, t |-> t]

\* the first character of str that is not a digit, "" when there is none
RECURSIVE FirstNonDigit(_)
FirstNonDigit(str) ==
    IF str = "" THEN ""
    ELSE IF ~IsDigit(Ch(str, 1)) THEN Ch(str, 1)
    ELSE FirstNonDigit(SubSeq(str, 2, Len(str)))

\* parseDateFormat: split at the first non-digit character, range-check
\* month (1..12) and day (1..31) only, and let time.Date normalise
parseDateFormat(str, format, loc) ==
    LET separator == FirstNonDigit(str)
        parts     == Split(str, separator)
        yearIdx   == IF format = "ymd" THEN 1 ELSE 3
        monthIdx  == IF format = "mdy" THEN 1 ELSE 2
        dayIdx    == CASE format = "ymd" -> 3 [] format = "mdy" -> 2
                       [] OTHER -> 1
        year      == Atoi(parts[yearIdx])
        month     == Atoi(parts[monthIdx])
        day       == Atoi(parts[dayIdx])
        fullYear  == IF year.v < 100 THEN parseTwoDigitYear(year.v)
                     ELSE year.v
    IN  IF format \notin {"ymd", "mdy", "dmy"} THEN Declined
        ELSE IF separator = "" THEN Declined
        ELSE IF Len(parts) # 3 THEN Declined
        ELSE IF ~year.ok THEN Declined
        ELSE IF ~month.ok \/ month.v < 1 \/ month.v > 12 THEN Declined
        ELSE IF ~day.ok \/ day.v < 1 \/ day.v > 31 THEN Declined
        ELSE Accepted(Date(fullYear, month.v, day.v, 0, 0, 0, 0, loc))

\* isNumericPattern: only digits and exactly two separators, every part
\* non-empty, the first part of firstPartLen digits when that is positive
isNumericPattern(str, firstPartLen, separator) ==
    LET parts == Split(str, separator)
    IN  /\ \A i \in 1..Len(str) : IsDigit(Ch(str, i)) \/ Ch(str, i) = separator
        /\ Len(parts) = 3
        /\ (firstPartLen > 0 => Len(parts[1]) = firstPartLen)
        /\ Len(parts[1]) > 0 /\ Len(parts[2]) > 0 /\ Len(parts[3]) > 0

\* parseISOFormat (YYYY-MM-DD)
parseISOFormat(str, loc) ==
    IF Len(str) >= 8 /\ Len(str) <= 10 /\ isNumericPattern(str, 4, "-")
    THEN parseDateFormat(str, "ymd", loc) ELSE Declined

\* parseSlashFormat (YYYY/MM/DD)
parseSlashFormat(str, loc) ==
    IF Len(str) >= 8 /\ Len(str) <= 10 /\ isNumericPattern(str, 4, "/")
    THEN parseDateFormat(str, "ymd", loc) ELSE Declined

\* parseUSFormat (MM/DD/YYYY)
parseUSFormat(str, loc) ==
    IF /\ Len(str) >= 8 /\ Len(str) <= 10 /\ CountChar(str, "/") = 2
       /\ Len(Split(str, "/")[3]) = 4
    THEN parseDateFormat(str, "mdy", loc) ELSE Declined

\* parseEuropeanFormat (DD.MM.YY or DD.MM.YYYY)
parseEuropeanFormat(str, loc) ==
    IF /\ Len(str) >= 6 /\ Len(str) <= 10 /\ CountChar(str, ".") = 2
       /\ \A i \in 1..3 : AllDigits(Split(str, ".")[i])
    THEN parseDateFormat(str, "dmy", loc) ELSE Declined

\* parseCompactTimestamp (YYYYMMDDhhmmss)
parseCompactTimestamp(str, loc) ==
    LET year   == DigitsValue(SubSeq(str, 1, 4))
        month  == DigitsValue(SubSeq(str, 5, 6))
        day    == DigitsValue(SubSeq(str, 7, 8))
        hour   == DigitsValue(SubSeq(str, 9, 10))
        minute == DigitsValue(SubSeq(str, 11, 12))
        second == DigitsValue(SubSeq(str, 13, 14))
    IN  IF Len(str) # 14 \/ ~AllDigits(str) THEN Declined
        ELSE IF month < 1 \/ month > 12 \/ day < 1 \/ day > 31 THEN Declined
        ELSE IF hour > 23 \/ minute > 59 \/ second > 59 THEN Declined
        ELSE Accepted(Date(year, month, day, hour, minute, second, 0, loc))

(***************************************************************************)
(* Pattern-matched sub-parsers.  The regular expressions of the code are   *)
(* anchored sequences of digit runs, letter runs, whitespace runs and      *)
(* single operator characters, so a match is decided on the token          *)
(* sequence of the input: a run of the pattern is one token.  toks[k] is   *)
(* the k-th token, 1-based.                                                *)
(***************************************************************************)

\* \d{lo,hi} against a whole digit run
IsNum(tok, lo, hi) ==
    tok.Typ = "Number" /\ Len(tok.Val) >= lo /\ Len(tok.Val) <= hi

\* a literal operator character
IsOp(tok, v) == tok.Typ = "Operator" /\ tok.Val = v

\* \s+
IsWs(tok) == tok.Typ = "Whitespace"

\* [A-Za-z]+ against a whole run
IsWord(tok) == tok.Typ = "String" /\ AllLetters(tok.Val)

\* the input from the first character of token k to its end
RestFrom(str, toks, k) == SubSeq(str, toks[k].Pos + 1, Len(str))

\* the input before the first character of token k
Before(str, toks, k) == SubSeq(str, 1, toks[k].Pos)

\* [a-zA-Z0-9/_.]+
IsZoneText(s) ==
    /\ s # ""
    /\ \A i \in 1..Len(s) :
           IsLetter(Ch(s, i)) \/ IsDigit(Ch(s, i)) \/ Ch(s, i) \in {"/", "_", "."}

\* \s+([a-zA-Z0-9/_.]+)$ with the whitespace run at token b
ZoneTail(str, toks, b) ==
    /\ Len(toks) >= b + 1
    /\ IsWs(toks[b])
    /\ IsZoneText(RestFrom(str, toks, b + 1))

\* (\d{1,2}):(\d{1,2}) at tokens k .. k+2
ClockAt(toks, k) ==
    /\ Len(toks) >= k + 2
    /\ IsNum(toks[k], 1, 2) /\ IsOp(toks[k + 1], ":")
    /\ IsNum(toks[k + 2], 1, 2)

\* (\d{4}-\d{1,2}-\d{1,2})\s+(\d{1,2}):(\d{1,2}):(\d{1,2}) at tokens 1 .. 11
IsoDateTimeAt(toks) ==
    /\ Len(toks) >= 11
    /\ IsNum(toks[1], 4, 4) /\ IsOp(toks[2], "-") /\ IsNum(toks[3], 1, 2)
    /\ IsOp(toks[4], "-") /\ IsNum(toks[5], 1, 2) /\ IsWs(toks[6])
    /\ ClockAt(toks, 7) /\ IsOp(toks[10], ":") /\ IsNum(toks[11], 1, 2)

\* the clock fields are in range
ClockInRange(hour, minute, second) ==
    /\ hour >= 0 /\ hour <= 23 /\ minute >= 0 /\ minute <= 59
    /\ second >= 0 /\ second <= 59

\* the first sub-parser result that is ok
OrElse(r, rest) == IF r.ok THEN r ELSE rest

\* parseFullDateTimeWithTimezone behind the pattern match: form says which
\* pattern matched, a is the token before the year
FullDateTimeOf(str, toks, a, form) ==
    LET b       == CASE form = "hms" -> a + 8 [] form = "hm" -> a + 6
                     [] OTHER -> a + 2
        mon     == getMonthByName(toks[1].Val)
        day     == DigitsValue(toks[3].Val)
        year    == DigitsValue(toks[a + 1].Val)
        maxDays == IF mon.month \in {4, 6, 9, 11} THEN 30
                   ELSE IF mon.month = 2
                        THEN (IF IsLeapYear(year) THEN 29 ELSE 28)
                   ELSE 31
        hour    == IF form \in {"hms", "hm"} THEN DigitsValue(toks[a + 3].Val)
                   ELSE 0
        minute  == IF form \in {"hms", "hm"} THEN DigitsValue(toks[a + 5].Val)
                   ELSE 0
        second  == IF form = "hms" THEN DigitsValue(toks[a + 7].Val) ELSE 0
        tz      == tryParseTimezone(RestFrom(str, toks, b + 1))
    IN  IF form = "none" THEN Declined
        ELSE IF ~mon.ok THEN Declined
        ELSE IF day < 1 \/ day > 31 THEN Declined
        ELSE IF year < 1 \/ year > 9999 THEN Declined
        ELSE IF day > maxDays THEN Declined
        ELSE IF ~ClockInRange(hour, minute, second) THEN Declined
        ELSE IF ~tz.found THEN Declined
        ELSE Accepted(Date(year, mon.month, day, hour, minute, second, 0,
                           tz.loc))

\* parseFullDateTimeWithTimezone: month name, day, year, optional clock, zone
parseFullDateTimeWithTimezone(str, loc) ==
    LET toks    == Tokenize(str)
        n       == Len(toks)
        suffix  == n >= 4 /\ toks[4].Typ = "String"
                   /\ toks[4].Val \in {"st", "nd", "rd", "th"}
        a       == IF suffix THEN 5 ELSE 4
        head    == /\ n >= a + 1
                   /\ IsWord(toks[1]) /\ IsWs(toks[2]) /\ IsNum(toks[3], 1, 2)
                   /\ IsWs(toks[a]) /\ IsNum(toks[a + 1], 4, 4)
        hasTime == n >= a + 2 /\ IsWs(toks[a + 2]) /\ ClockAt(toks, a + 3)
        hasSec  == /\ hasTime /\ n >= a + 7
                   /\ IsOp(toks[a + 6], ":") /\ IsNum(toks[a + 7], 1, 2)
    IN  FullDateTimeOf(str, toks, a,
            IF ~head THEN "none"
            ELSE IF hasSec /\ ZoneTail(str, toks, a + 8) THEN "hms"
            ELSE IF hasTime /\ ZoneTail(str, toks, a + 6) THEN "hm"
            ELSE IF ZoneTail(str, toks, a + 2) THEN "date"
            ELSE "none")

\* the ISO date + clock + zone form of parseWithTimezone, the pattern
\* having matched: the time is built in the location of the call and then
\* shown in the zone
IsoInZone(d, hour, minute, second, tz) ==
    IF ~ClockInRange(hour, minute, second) THEN Declined
    ELSE IF ~d.ok THEN Declined
    ELSE IF ~tz.found THEN Declined
    ELSE Accepted(In(OnDateOf(d.t, hour, minute, second, 0, d.t.loc), tz.loc))

\* the clock + zone form of parseWithTimezone, the pattern having matched:
\* the date is the one the wall clock shows in the zone
ClockInZone(hour, minute, second, tz, clock) ==
    IF ~ClockInRange(hour, minute, second) THEN Declined
    ELSE IF ~tz.found THEN Declined
    ELSE Accepted(OnDateOf(In(clock, tz.loc), hour, minute, second, 0,
                           tz.loc))

\* a parseWithTimezone that takes a date without time and zone for a match
\* and gives it the time of day of the wall clock
parseWithTimezone_ClockTime(str, loc, clock) ==
    IF parseISOFormat(str, loc).ok
    THEN Accepted(Date(Year(parseISOFormat(str, loc).t),
                       Month(parseISOFormat(str, loc).t),
                       Day(parseISOFormat(str, loc).t),
                       Hour(In(clock, loc)), Minute(In(clock, loc)),
                       Second(In(clock, loc)), 0, loc))
    ELSE Declined

\* parseWithTimezone: the month-name form, then ISO date + clock + zone,
\* then clock + zone
parseWithTimezone(str, loc, clock) ==
    LET toks   == Tokenize(str)
        iso    == IsoDateTimeAt(toks) /\ ZoneTail(str, toks, 12)
        hasSec == /\ Len(toks) >= 5 /\ IsOp(toks[4], ":")
                  /\ IsNum(toks[5], 1, 2) /\ ZoneTail(str, toks, 6)
        timeOnly == ClockAt(toks, 1) /\ (hasSec \/ ZoneTail(str, toks, 4))
    IN  OrElse(parseFullDateTimeWithTimezone(str, loc),
            IF iso
            THEN IsoInZone(parseISOFormat(Before(str, toks, 6), loc),
                           DigitsValue(toks[7].Val), DigitsValue(toks[9].Val),
                           DigitsValue(toks[11].Val),
                           tryParseTimezone(RestFrom(str, toks, 13)))
            ELSE IF timeOnly
            THEN ClockInZone(DigitsValue(toks[1].Val),
                             DigitsValue(toks[3].Val),
                             IF hasSec THEN DigitsValue(toks[5].Val) ELSE 0,
                             tryParseTimezone(RestFrom(str, toks,
                                                  IF hasSec THEN 7 ELSE 5)),
                             clock)
            ELSE Declined)

\* parseMonthNameFormat: "jan-15-2006" and "2006-jan-15"
parseMonthNameFormat(str, loc) ==
    LET toks == Tokenize(str)
        dash == Len(toks) = 5 /\ IsOp(toks[2], "-") /\ IsOp(toks[4], "-")
        mdy  == /\ dash /\ IsWord(toks[1]) /\ Len(toks[1].Val) >= 3
                /\ IsNum(toks[3], 1, 2) /\ IsNum(toks[5], 4, 4)
        ymd  == /\ dash /\ IsNum(toks[1], 4, 4)
                /\ IsWord(toks[3]) /\ Len(toks[3].Val) >= 3
                /\ IsNum(toks[5], 1, 2)
        mon  == getMonthByName(IF mdy THEN toks[1].Val ELSE toks[3].Val)
        day  == DigitsValue(IF mdy THEN toks[3].Val ELSE toks[5].Val)
        year == DigitsValue(IF mdy THEN toks[5].Val ELSE toks[1].Val)
    IN  IF ~mdy /\ ~ymd THEN Declined
        ELSE IF ~mon.ok THEN Declined
        ELSE IF ~IsValidDate(year, mon.month, day) THEN Declined
        ELSE Accepted(Date(year, mon.month, day, 0, 0, 0, 0, loc))

\* parseHTTPLogFormat: "10/oct/2000:13:55:36 +0100"
parseHTTPLogFormat(str, loc) ==
    LET toks   == Tokenize(str)
        match  == /\ Len(toks) = 14
                  /\ IsNum(toks[1], 1, 2) /\ IsOp(toks[2], "/")
                  /\ IsWord(toks[3]) /\ Len(toks[3].Val) = 3
                  /\ IsOp(toks[4], "/") /\ IsNum(toks[5], 4, 4)
                  /\ IsOp(toks[6], ":") /\ IsNum(toks[7], 2, 2)
                  /\ IsOp(toks[8], ":") /\ IsNum(toks[9], 2, 2)
                  /\ IsOp(toks[10], ":") /\ IsNum(toks[11], 2, 2)
                  /\ IsWs(toks[12])
                  /\ (IsOp(toks[13], "+") \/ IsOp(toks[13], "-"))
                  /\ IsNum(toks[14], 4, 4)
        day    == DigitsValue(toks[1].Val)
        mon    == getMonthByName(toks[3].Val)
        year   == DigitsValue(toks[5].Val)
        hour   == DigitsValue(toks[7].Val)
        minute == DigitsValue(toks[9].Val)
        second == DigitsValue(toks[11].Val)
        tzOffset == toks[13].Val \o toks[14].Val
        tzHour == DigitsValue(SubSeq(tzOffset, 2, 3))
        tzMin  == DigitsValue(SubSeq(tzOffset, 4, 5))
    IN  IF ~match THEN Declined
        ELSE IF ~mon.ok THEN Declined
        ELSE IF ~IsValidDate(year, mon.month, day) THEN Declined
        ELSE IF ~IsValidTime(hour, minute, second) THEN Declined
        ELSE IF tzHour > 23 \/ tzMin > 59 THEN Declined
        ELSE Accepted(Date(year, mon.month, day, hour, minute, second, 0,
                           tzOffset))

\* the ordinal words of the numbered-weekday pattern
ordinalWords ==
    ("first" :> 1) @@ ("1st" :> 1) @@ ("second" :> 2) @@ ("2nd" :> 2)
    @@ ("third" :> 3) @@ ("3rd" :> 3) @@ ("fourth" :> 4) @@ ("4th" :> 4)
    @@ ("fifth" :> 5) @@ ("5th" :> 5) @@ ("last" :> 0 - 1)

\* the occurrence counted from the week after the first one
NumberedWeekdayIn_WeekLate(ordinal, dayOfWeek, year, month, lastDayOfMonth, loc) ==
    LET daysUntilFirst ==
            (dayOfWeek - Weekday(Date(year, month, 1, 0, 0, 0, 0, loc)) + 7)
                % 7
    IN  Accepted(Date(year, month, 1 + daysUntilFirst + ordinal * 7,
                      0, 0, 0, 0, loc))

\* parseNumberedWeekday behind the lookup of the names: the day of the
\* month of the ordinal-th (or last) dayOfWeek
NumberedWeekdayIn(ordinal, dayOfWeek, year, month, lastDayOfMonth, loc) ==
    LET daysUntilFirst ==
            (dayOfWeek - Weekday(Date(year, month, 1, 0, 0, 0, 0, loc)) + 7)
                % 7
        nthDay  == 1 + daysUntilFirst + (ordinal - 1) * 7
        lastDay == lastDayOfMonth
                       - ((Weekday(Date(year, month, lastDayOfMonth,
                                        0, 0, 0, 0, loc))
                           - dayOfWeek + 7) % 7)
    IN  IF ordinal > 0 /\ nthDay > lastDayOfMonth THEN Declined
        ELSE Accepted(Date(year, month,
                           IF ordinal > 0 THEN nthDay ELSE lastDay,
                           0, 0, 0, 0, loc))

\* parseNumberedWeekday behind the pattern match and the ordinal
NumberedWeekdayOf(ordinal, dayOfWeek, mon, hasYear, year, loc) ==
    IF dayOfWeek < 0 THEN Declined
    ELSE IF ~mon.ok THEN Declined
    ELSE IF hasYear /\ (year < 1 \/ year > 9999) THEN Declined
    ELSE NumberedWeekdayIn(ordinal, dayOfWeek, year, mon.month,
                           daysInMonth(year, mon.month), loc)

\* parseNumberedWeekday: "<ordinal> <weekday> [of] <month> [<year>]".  The
\* ordinal is a digit run or an ordinal word ("1st" is a digit run and a
\* letter run).  When only one word follows the ordinal the pattern still
\* matches, with the last letter of the word as the month.
parseNumberedWeekday(str, now, loc) ==
    LET toks    == Tokenize(str)
        n       == Len(toks)
        two     == /\ n >= 2 /\ toks[1].Typ = "Number" /\ toks[2].Typ = "String"
                   /\ (toks[1].Val \o toks[2].Val) \in DOMAIN ordinalWords
        numeric == n >= 1 /\ toks[1].Typ = "Number" /\ ~two
        word    == /\ n >= 1 /\ toks[1].Typ = "String"
                   /\ toks[1].Val \in DOMAIN ordinalWords
        a       == IF two THEN 3 ELSE 2
        w1      == n >= a + 1 /\ IsWs(toks[a]) /\ IsWord(toks[a + 1])
        w2      == w1 /\ n >= a + 3 /\ IsWs(toks[a + 2]) /\ IsWord(toks[a + 3])
        hasOf   == /\ w2 /\ toks[a + 3].Val = "of"
                   /\ n >= a + 5 /\ IsWs(toks[a + 4]) /\ IsWord(toks[a + 5])
        m       == CASE hasOf -> a + 5 [] w2 -> a + 3 [] OTHER -> a + 1
        tailOk  == \/ n = m
                   \/ n = m + 2 /\ IsWs(toks[m + 1]) /\ IsNum(toks[m + 2], 4, 4)
        single  == w1 /\ ~w2 /\ Len(toks[a + 1].Val) >= 2
        match   == /\ (two \/ numeric \/ word)
                   /\ (w2 \/ single)
                   /\ tailOk
        dayName == IF w2 THEN toks[a + 1].Val
                   ELSE SubSeq(toks[a + 1].Val, 1, Len(toks[a + 1].Val) - 1)
        monName == IF w2 THEN toks[m].Val
                   ELSE SubSeq(toks[a + 1].Val, Len(toks[a + 1].Val),
                               Len(toks[a + 1].Val))
        ordinal == IF numeric THEN DigitsValue(toks[1].Val)
                   ELSE IF two THEN ordinalWords[toks[1].Val \o toks[2].Val]
                   ELSE ordinalWords[toks[1].Val]
    IN  IF ~match THEN Declined
        ELSE IF numeric /\ (ordinal <= 0 \/ ordinal > 5) THEN Declined
        ELSE NumberedWeekdayOf(ordinal, getDayOfWeek(dayName),
                 getMonthByName(monName), n = m + 2,
                 IF n = m + 2 THEN DigitsValue(toks[m + 2].Val)
                 ELSE Year(now),
                 loc)

(***************************************************************************)
(* StrToTime: the ordered pipeline, the compound-expression splitter and   *)
(* the date-with-adjustment form.  A call returns [ok, t, err].  The       *)
(* options of a call are its reference time ref (the zero time when none   *)
(* is given) and its location loc; clock is what time.Now() returns.       *)
(***************************************************************************)

\* strings.Index for a one-character needle, 1-based, 0 when absent
IndexChar(s, c) ==
    IF ContainsChar(s, c)
    THEN CHOOSE i \in 1..Len(s) :
             Ch(s, i) = c /\ \A j \in 1..(i - 1) : Ch(s, j) # c
    ELSE 0

\* a time.Unix that keeps the second of the day and drops the whole days
Unix_DropsDays(sec, nsec, loc) ==
    [day |-> DaysFromCivil(1970, 1, 1), sec |-> sec % 86400, ns |-> nsec,
     loc |-> loc]

\* time.Unix(sec, nsec).In(loc): nsec of a second or more is carried into
\* the seconds
Unix(sec, nsec, loc) ==
    [day |-> DaysFromCivil(1970, 1, 1)
                 + ((sec + nsec \div 1000000000) \div 86400),
     sec |-> (sec + nsec \div 1000000000) % 86400,
     ns  |-> nsec % 1000000000, loc |-> loc]

\* Natural numbers of any size as sequences of limbs below LimbBase, least
\* significant limb first and no zero limb at the top; <<>> is zero.  They
\* carry the 64-bit floating-point arithmetic of the "@S.F" branch.
RECURSIVE Pow2(_)
Pow2(j) == IF j = 0 THEN 1 ELSE 2 * Pow2(j - 1)

\* the number of bits of a limb v
RECURSIVE BitsOfLimb(_)
BitsOfLimb(v) == IF v = 0 THEN 0 ELSE 1 + BitsOfLimb(v \div 2)

LimbBase == 32 * 1024

LimbBits == BitsOfLimb(LimbBase - 1)

\* a without its zero limbs at the top
RECURSIVE Norm(_)
Norm(a) ==
    IF a = <<>> THEN <<>>
    ELSE IF a[Len(a)] = 0 THEN Norm(SubSeq(a, 1, Len(a) - 1))
    ELSE a

\* a * c + carry from limb i on, for c and carry below LimbBase
RECURSIVE MulFrom(_, _, _, _)
MulFrom(a, c, i, carry) ==
    IF i > Len(a) THEN (IF carry = 0 THEN <<>> ELSE <<carry>>)
    ELSE <<(a[i] * c + carry) % LimbBase>>
         \o MulFrom(a, c, i + 1, (a[i] * c + carry) \div LimbBase)

MulAdd(a, c, add) == MulFrom(a, c, 1, add)

\* a divided by c < LimbBase from limb i down with remainder rem carried
\* in: the remainder followed by the limbs of the quotient
RECURSIVE DivFrom(_, _, _, _)
DivFrom(a, c, i, rem) ==
    IF i = 0 THEN <<rem>>
    ELSE DivFrom(a, c, i - 1, (rem * LimbBase + a[i]) % c)
         \o <<(rem * LimbBase + a[i]) \div c>>

\* a number with the note that something nonzero was cut off below it
Cut(n, sticky) == [n |-> Norm(n), sticky |-> sticky]

\* x.n divided by c, rounding down
DivCut(x, c) ==
    Cut(Tail(DivFrom(x.n, c, Len(x.n), 0)),
        x.sticky \/ Head(DivFrom(x.n, c, Len(x.n), 0)) # 0)

\* x.n divided by 10^d, rounding down
RECURSIVE DivPow10(_, _)
DivPow10(x, d) ==
    IF d = 0 THEN x
    ELSE IF d >= 4 THEN DivPow10(DivCut(x, 10000), d - 4)
    ELSE DivPow10(DivCut(x, 10), d - 1)

\* the number of bits of a
BitLen(a) ==
    IF a = <<>> THEN 0
    ELSE (Len(a) - 1) * LimbBits + BitsOfLimb(a[Len(a)])

\* a * 2^(LimbBits * n)
RECURSIVE ShiftLimbs(_, _)
ShiftLimbs(a, n) ==
    IF n = 0 \/ a = <<>> THEN a ELSE <<0>> \o ShiftLimbs(a, n - 1)

\* x.n divided by 2^j, rounding down
DropBits(x, j) ==
    DivCut(Cut(SubSeq(x.n, j \div LimbBits + 1, Len(x.n)),
               x.sticky
               \/ \E i \in 1..(j \div LimbBits) : i <= Len(x.n) /\ x.n[i] # 0),
           Pow2(j % LimbBits))

\* x.n / 2 rounded to the nearest integer, to the even one of two nearest
HalfEven(x) ==
    IF /\ x.n # <<>> /\ x.n[1] % 2 = 1
       /\ (x.sticky \/ (x.n[1] \div 2) % 2 = 1)
    THEN MulAdd(DivCut(x, 2).n, 1, 1)
    ELSE DivCut(x, 2).n

\* x.n rounded to 53 significant bits: [m, e] with value m * 2^e
Round53(x) ==
    IF BitLen(x.n) <= 53 THEN [m |-> x.n, e |-> 0]
    ELSE [m |-> HalfEven(DropBits(x, BitLen(x.n) - 54)),
          e |-> BitLen(x.n) - 53]

\* the first i decimal digits of s as a number
RECURSIVE FromDigits(_, _)
FromDigits(s, i) ==
    IF i = 0 THEN <<>>
    ELSE IF i >= 4
    THEN Norm(MulAdd(FromDigits(s, i - 4), 10000,
                     DigitsValue(SubSeq(s, i - 3, i))))
    ELSE Norm(MulAdd(FromDigits(s, i - 1), 10, DigitVal(Ch(s, i))))

\* the number of limbs 0.F is scaled up by before it is rounded
ScaleLimbs(frac) == 4 + (Len(frac) + 3) \div 4

\* strconv.ParseFloat("0." + frac, 64) for digits frac: the float64 nearest
\* to 0.frac as [m, e], its value being m * 2^(e - LimbBits * ScaleLimbs)
ParseFraction(frac) ==
    Round53(DivPow10(Cut(ShiftLimbs(FromDigits(frac, Len(frac)),
                                    ScaleLimbs(frac)), FALSE),
                     Len(frac)))

\* the float64 product f * 1e9 as [m, e]: f.m * 10^9 rounded to 53 bits
TimesBillion(f) ==
    Round53(Cut(MulAdd(MulAdd(MulAdd(f.m, 1000, 0), 1000, 0), 1000, 0),
                FALSE))

\* a number of at most 31 bits as an integer
Small(a) ==
    (IF Len(a) >= 1 THEN a[1] ELSE 0)
    + (IF Len(a) >= 2 THEN a[2] * LimbBase ELSE 0)
    + (IF Len(a) >= 3 THEN a[3] * LimbBase * LimbBase ELSE 0)

\* int64(p) for the product p of a float64 f = [m, e] below 1 with 1e9:
\* p.m * 2^(p.e + f.e) / 2^(LimbBits * limbs), rounded towards zero
Truncated(p, fe, limbs) ==
    Small(DropBits(Cut(p.m, FALSE), LimbBits * limbs - p.e - fe).n)

\* the nanoseconds of the fraction digits of "@S.F":
\* int64(ParseFloat("0." + F) * 1e9), and 0 for a fraction ParseFloat
\* rejects (a fraction that is no digit string counts as rejected)
FractionNanos(frac) ==
    IF ~AllDigits(frac) THEN 0
    ELSE Truncated(TimesBillion(ParseFraction(frac)), ParseFraction(frac).e,
                   ScaleLimbs(frac))

\* the "@timestamp" branch: [ok, t]; a timestamp that is no number falls
\* to the next format
UnixTimestamp(str, loc) ==
    LET unixTimeStr == SubSeq(str, 2, Len(str))
        sp        == IndexChar(unixTimeStr, " ")
        timestamp == IF sp = 0 THEN unixTimeStr
                     ELSE SubSeq(unixTimeStr, 1, sp - 1)
        tzPart    == IF sp = 0 THEN ""
                     ELSE SubSeq(unixTimeStr, sp + 1, Len(unixTimeStr))
        idx       == IndexChar(timestamp, ".")
        whole     == IF idx = 0 THEN timestamp
                     ELSE SubSeq(timestamp, 1, idx - 1)
        unixTime  == Atoi(whole)
        nanoSec   == IF idx = 0 THEN 0
                     ELSE FractionNanos(SubSeq(timestamp, idx + 1,
                                               Len(timestamp)))
        tz        == tryParseTimezone(tzPart)
    IN  IF ~unixTime.ok THEN Declined
        ELSE IF tzPart # "" /\ tz.found
             THEN Accepted(In(Unix(unixTime.v, nanoSec, loc), tz.loc))
        ELSE Accepted(Unix(unixTime.v, nanoSec, loc))

\* the Replacer of the compound forms: " + " and "+ " become "+", " - "
\* and "- " become "-", scanning from the left without overlap
RECURSIVE NormalizeOperators(_)
NormalizeOperators(s) ==
    IF s = "" THEN ""
    ELSE IF HasPrefix(s, " + ")
         THEN "+" \o NormalizeOperators(SubSeq(s, 4, Len(s)))
    ELSE IF HasPrefix(s, " - ")
         THEN "-" \o NormalizeOperators(SubSeq(s, 4, Len(s)))
    ELSE IF HasPrefix(s, "+ ")
         THEN "+" \o NormalizeOperators(SubSeq(s, 3, Len(s)))
    ELSE IF HasPrefix(s, "- ")
         THEN "-" \o NormalizeOperators(SubSeq(s, 3, Len(s)))
    ELSE Ch(s, 1) \o NormalizeOperators(SubSeq(s, 2, Len(s)))

\* isCompoundExpression: a "+" or "-" that is not the first character
isCompoundExpression(str) ==
    LET normalizedStr == NormalizeOperators(str)
    IN  \/ ContainsChar(normalizedStr, "+") /\ ~HasPrefix(normalizedStr, "+")
        \/ ContainsChar(normalizedStr, "-") /\ ~HasPrefix(normalizedStr, "-")

\* the splitting loop of parseCompoundExpression from character i on:
\* [parts, operators]; the last part is kept only when it is not empty
RECURSIVE SplitOperators(_, _, _, _, _)
SplitOperators(s, i, currentPart, parts, operators) ==
    IF i > Len(s)
    THEN [parts     |-> IF currentPart # "" THEN Append(parts, currentPart)
                        ELSE parts,
          operators |-> operators]
    ELSE IF Ch(s, i) \in {"+", "-"} /\ i > 1
         THEN SplitOperators(s, i + 1, "", Append(parts, currentPart),
                             Append(operators, Ch(s, i)))
    ELSE SplitOperators(s, i + 1, currentPart \o Ch(s, i), parts, operators)

\* a segment handed on without its operator
opPart_NoOperator(operators, parts, i) == parts[i + 1]

\* the segment handed to the recursive call for operator i (1-based)
opPart(operators, parts, i) == operators[i] \o parts[i + 1]

\* the reference time of a call: the wall clock when no reference time is
\* given, always shown in the location of the call
EffectiveNow(ref, loc, clock) ==
    IF ref.day = 0 /\ ref.sec = 0 /\ ref.ns = 0 THEN In(clock, loc)
    ELSE In(ref, loc)

\* "now", "today", "tomorrow", "yesterday"
SpecialWord(str, now, loc) ==
    CASE str = "now"       -> now
      [] str = "today"     -> Midnight(now, loc)
      [] str = "tomorrow"  -> Midnight(AddDate(now, 0, 0, 1), loc)
      [] str = "yesterday" -> Midnight(AddDate(now, 0, 0, 0 - 1), loc)

\* the "YYYY-MM-DD HH:MM:SS" branch of StrToTime, the pattern having
\* matched; d is what parseISOFormat returned for the date
DateTimeLiteral(d, hour, minute, second, loc) ==
    IF ~ClockInRange(hour, minute, second)
    THEN Err("invalid time components in datetime")
    ELSE IF ~d.ok THEN Err("invalid date format in datetime")
    ELSE Ok(OnDateOf(d.t, hour, minute, second, 0, loc))

\* the date pattern of parseDateWithRelativeTime at tokens 1 .. 5, then
\* whitespace and a rest without a line break
DateThenRest(str, toks) ==
    /\ Len(toks) >= 7
    /\ toks[1].Typ = "Number" /\ toks[3].Typ = "Number"
    /\ toks[5].Typ = "Number"
    /\ LET l1 == Len(toks[1].Val)
           l2 == Len(toks[3].Val)
           l3 == Len(toks[5].Val)
           dash  == IsOp(toks[2], "-") /\ IsOp(toks[4], "-")
           slash == IsOp(toks[2], "/") /\ IsOp(toks[4], "/")
           dot   == IsOp(toks[2], ".") /\ IsOp(toks[4], ".")
       IN  \/ dash /\ l1 = 4 /\ l2 \in 1..2 /\ l3 \in 1..2
           \/ slash /\ l1 = 4 /\ l2 \in 1..2 /\ l3 \in 1..2
           \/ slash /\ l1 \in 1..2 /\ l2 \in 1..2 /\ l3 = 4
           \/ dot /\ l1 \in 1..2 /\ l2 \in 1..2 /\ l3 \in 2..4
    /\ IsWs(toks[6])
    /\ ~ContainsChar(RestFrom(str, toks, 7), "\n")

\* the error of Parse as StrToTime returns it (wrapped, identity kept)
WrapParse(r) == IF r.ok THEN r ELSE Err(r.err)

\* what StrToTime returns before it creates a Parser: [done, res, parser]
Returned(res) ==
    [done |-> TRUE, res |-> res, parser |-> NewParser("", ZeroTime, "UTC")]

\* the result r of a sub-parser in the pipeline of StrToTime: returned when
\* ok, otherwise the pipeline goes on with rest
OrParsed(r, rest) == IF r.ok THEN Returned(Ok(r.t)) ELSE rest

\* the value of a sub-parser that hands on the result r of a nested call
Adjusted(r) == IF r.ok THEN Accepted(r.t) ELSE Declined

RECURSIVE StrToTime(_, _, _, _)
RECURSIVE Front(_, _, _, _)
RECURSIVE parseCompoundExpression(_, _, _, _)
RECURSIVE compoundLoop(_, _, _, _, _, _)
RECURSIVE compoundNext(_, _, _, _, _, _)
RECURSIVE parseDateWithRelativeTime(_, _, _, _)
RECURSIVE dateThenTime(_, _, _, _)

\* the loop of parseCompoundExpression over the operators from i on, with
\* the running result as reference time of the next segment
compoundLoop(parts, operators, i, result, loc, clock) ==
    IF i > Len(operators) THEN Ok(result)
    ELSE IF i + 1 > Len(parts)
         THEN Err("missing operand after operator in compound expression")
    ELSE compoundNext(StrToTime(opPart(operators, parts, i), result, loc,
                                clock),
                      parts, operators, i + 1, loc, clock)

\* parseCompoundExpression behind a nested call that returned r: its error
\* is returned, its time is the running result for operator i
compoundNext(r, parts, operators, i, loc, clock) ==
    IF ~r.ok THEN Err(r.err)
    ELSE compoundLoop(parts, operators, i, r.t, loc, clock)

\* parseCompoundExpression
parseCompoundExpression(str, now, loc, clock) ==
    LET sp == SplitOperators(NormalizeOperators(str), 1, "", <<>>, <<>>)
    IN  IF Len(sp.parts) < 2 \/ Len(sp.operators) < 1
        THEN Err("invalid compound expression format")
        ELSE compoundNext(StrToTime(sp.parts[1], now, loc, clock),
                          sp.parts, sp.operators, 1, loc, clock)

\* parseDateWithRelativeTime behind the parse of the date part, which
\* returned dateResult
dateThenTime(dateResult, timePart, loc, clock) ==
    IF ~dateResult.ok THEN Declined
    ELSE IF /\ timePart = "-1 month"
            /\ Day(dateResult.t)
                   = daysInMonth(Year(dateResult.t), Month(dateResult.t))
    THEN Accepted(MonthEndOf(
             AddDate(Date(Year(dateResult.t), Month(dateResult.t), 1,
                          0, 0, 0, 0, loc), 0, 0 - 1, 0),
             dateResult.t, loc))
    ELSE Adjusted(StrToTime(timePart, dateResult.t, loc, clock))

\* parseDateWithRelativeTime: [ok, t]
parseDateWithRelativeTime(str, now, loc, clock) ==
    IF ~DateThenRest(str, Tokenize(str)) THEN Declined
    ELSE dateThenTime(StrToTime(Before(str, Tokenize(str), 6), now, loc,
                                clock),
                      RestFrom(str, Tokenize(str), 7), loc, clock)

\* StrToTime up to the creation of the Parser: [done, res, parser]; done
\* says that the call returned res before tokenizing
Front(input, ref, loc, clock) ==
    LET now  == EffectiveNow(ref, loc, clock)
        str  == ToLower(TrimSpace(input))
        toks == Tokenize(str)
    IN  IF str = "" THEN Returned(Err("ErrEmptyTimeString"))
        ELSE
        OrParsed(IF Ch(str, 1) = "@" THEN UnixTimestamp(str, loc)
                 ELSE Declined,
        OrParsed(parseEuropeanFormat(str, loc),
        IF str \in {"now", "today", "tomorrow", "yesterday"}
        THEN Returned(Ok(SpecialWord(str, now, loc)))
        ELSE IF IsoDateTimeAt(toks) /\ Len(toks) = 11
        THEN Returned(DateTimeLiteral(
                 parseISOFormat(Before(str, toks, 6), loc),
                 DigitsValue(toks[7].Val), DigitsValue(toks[9].Val),
                 DigitsValue(toks[11].Val), loc))
        ELSE
        OrParsed(parseWithTimezone(str, loc, clock),
        OrParsed(parseISOFormat(str, loc),
        OrParsed(parseSlashFormat(str, loc),
        OrParsed(parseUSFormat(str, loc),
        OrParsed(parseCompactTimestamp(str, loc),
        OrParsed(parseMonthNameFormat(str, loc),
        OrParsed(parseHTTPLogFormat(str, loc),
        OrParsed(parseNumberedWeekday(str, now, loc),
        IF isCompoundExpression(str)
        THEN Returned(parseCompoundExpression(str, now, loc, clock))
        ELSE
        OrParsed(parseDateWithRelativeTime(str, now, loc, clock),
                 [done |-> FALSE, res |-> Err(""),
                  parser |-> NewParser(str, now, loc)])))))))))))

\* StrToTime behind the pipeline: the Parser runs unless the call returned
Finished(f) == IF f.done THEN f.res ELSE WrapParse(Parse(f.parser))

\* StrToTime
StrToTime(input, ref, loc, clock) == Finished(Front(input, ref, loc, clock))

(***************************************************************************)
(* The inputs of the model                                                 *)
(***************************************************************************)

\* the largest amount written in a relative clause
MaxAmount == 3

Amounts == 1..MaxAmount

DigitText(d) ==
    CASE d = 0 -> "0" [] d = 1 -> "1" [] d = 2 -> "2" [] d = 3 -> "3"
      [] d = 4 -> "4" [] d = 5 -> "5" [] d = 6 -> "6" [] d = 7 -> "7"
      [] d = 8 -> "8" [] d = 9 -> "9"

\* the decimal spelling of n >= 0
RECURSIVE Itoa(_)
Itoa(n) == IF n < 10 THEN DigitText(n) ELSE Itoa(n \div 10) \o DigitText(n % 10)

\* n >= 0 written with at least two digits
Pad2(n) == IF n < 10 THEN "0" \o Itoa(n) ELSE Itoa(n)

WeekdayNames ==
    {"sunday", "sun", "monday", "mon", "tuesday", "tue", "wednesday", "wed",
     "thursday", "thu", "friday", "fri", "saturday", "sat"}

\* "+N month" and "-N month"
MonthOffsetText(sign, n) == sign \o Itoa(n) \o " month"

MonthOffsetInputs ==
    {MonthOffsetText(sign, n) : sign \in {"+", "-"}, n \in Amounts}

\* "next"/"last" followed by a weekday or by week, month, year
NavigationInputs ==
    {d \o " " \o w : d \in {"next", "last"},
                     w \in WeekdayNames \cup {"week", "month", "year"}}

\* relative and navigational expressions that break off
PartialInputs ==
    {"next", "last", "next 5", "last ,", "next foo", "last days", "+", "-",
     "+ day", "- 1", "5", "+5", "-5", "5 foo", "+5 foo", "-5 foo"}

\* year, month and day written in each numeric literal form
LiteralForms == {"iso", "slash", "us", "european", "compact"}

LiteralText(form, y, m, d) ==
    CASE form = "iso"      -> Itoa(y) \o "-" \o Pad2(m) \o "-" \o Pad2(d)
      [] form = "slash"    -> Itoa(y) \o "/" \o Pad2(m) \o "/" \o Pad2(d)
      [] form = "us"       -> Pad2(m) \o "/" \o Pad2(d) \o "/" \o Itoa(y)
      [] form = "european" -> Pad2(d) \o "." \o Pad2(m) \o "." \o Itoa(y)
      [] form = "compact"  -> Itoa(y) \o Pad2(m) \o Pad2(d) \o "000000"

LiteralYears == {2020, 2023}

LiteralMonths == {2, 4, 12}

LiteralDays == {28, 29, 30, 31}

LiteralInputs ==
    {LiteralText(f, y, m, d) : f \in LiteralForms, y \in LiteralYears,
                               m \in LiteralMonths, d \in LiteralDays}

\* inputs that must be rejected, among them dates that do not exist
RejectedInputs ==
    {"2005-99-99", "February 30, 2023", "February 29, 2023",
     "sixth Monday of January 2023", "", "  ", "2023-13-01", "2023-04-31"}

\* a chain: first segment s0, then operator ops[i] and segment segs[i]
ChainShapes ==
    {[s0 |-> s, ops |-> <<o>>, segs |-> <<Itoa(n) \o " " \o u>>] :
         s \in {"next year", "tomorrow", "now", "2023/05/30"},
         o \in {"+", "-"},
         n \in Amounts, u \in {"day", "month"}}
    \cup
    {[s0 |-> "next year", ops |-> <<o1, o2>>,
      segs |-> <<"1 month", Itoa(n) \o " week">>] :
         o1 \in {"+", "-"}, o2 \in {"+", "-"}, n \in Amounts}

\* the spelling of chain c from operator i on, with or without spaces
\* around the operators
RECURSIVE ChainTail(_, _, _)
ChainTail(c, i, spaced) ==
    IF i > Len(c.ops) THEN ""
    ELSE (IF spaced THEN " " \o c.ops[i] \o " " ELSE c.ops[i])
         \o c.segs[i] \o ChainTail(c, i + 1, spaced)

ChainText(c, spaced) == c.s0 \o ChainTail(c, 1, spaced)

ChainInputs == {ChainText(c, spaced) : c \in ChainShapes, spaced \in BOOLEAN}

\* chains in which an operator has no segment behind it
DanglingInputs ==
    {"next year +", "2023-", "next year ++ 1 day", "tomorrow + 1 day -",
     "next year +- 1 day", "now -"}

\* date literals with the date they write
DateLiterals ==
    {[text |-> "2023-05-30", y |-> 2023, m |-> 5, d |-> 30],
     [text |-> "2022-01-01", y |-> 2022, m |-> 1, d |-> 1],
     [text |-> "2023-05-31", y |-> 2023, m |-> 5, d |-> 31],
     [text |-> "2023/05/30", y |-> 2023, m |-> 5, d |-> 30],
     [text |-> "2023/05/31", y |-> 2023, m |-> 5, d |-> 31],
     [text |-> "05/30/2023", y |-> 2023, m |-> 5, d |-> 30],
     [text |-> "30.05.2023", y |-> 2023, m |-> 5, d |-> 30],
     [text |-> "30.05.23", y |-> 2023, m |-> 5, d |-> 30]}

\* expressions written behind a date literal
Adjustments ==
    {"+1 day", "+1 year", "-1 month", "1 day", "next monday", "next month"}

AdjustedText(lit, rest) == lit.text \o " " \o rest

AdjustedInputs ==
    {AdjustedText(lit, rest) : lit \in DateLiterals, rest \in Adjustments}

\* the ordinals of a numbered weekday with the number each stands for
\* (-1 for "last")
OrdinalTexts ==
    {<<"1", 1>>, <<"first", 1>>, <<"1st", 1>>, <<"2", 2>>, <<"second", 2>>,
     <<"3", 3>>, <<"third", 3>>, <<"3rd", 3>>, <<"4", 4>>, <<"fourth", 4>>,
     <<"5", 5>>, <<"fifth", 5>>, <<"5th", 5>>, <<"last", 0 - 1>>}

\* month names with the number of the month
NumberedMonths == {<<"december", 12>>, <<"february", 2>>, <<"may", 5>>}

\* the years written in a numbered weekday, 0 for none
NumberedYears == {0, 2008, 2023}

\* "<ordinal> <weekday> [of] <month> [<year>]": the n-th (or last) weekday
\* w of month m of year y; y = 0 says that no year is written
NumberedShapes ==
    {[ord |-> o[1], n |-> o[2], w |-> w, mon |-> m[1], m |-> m[2],
      of |-> f, y |-> y] :
         o \in OrdinalTexts, w \in {"monday", "fri", "sunday"},
         m \in NumberedMonths, f \in BOOLEAN, y \in NumberedYears}

NumberedText(sh) ==
    sh.ord \o " " \o sh.w \o (IF sh.of THEN " of " ELSE " ") \o sh.mon
    \o (IF sh.y = 0 THEN "" ELSE " " \o Itoa(sh.y))

\* ordinal numbers outside 1..5
OutOfRangeOrdinals == {<<"6", 6>>, <<"0", 0>>}

OutOfRangeShapes ==
    {[ord |-> o[1], n |-> o[2], w |-> "monday", mon |-> m[1], m |-> m[2],
      of |-> f, y |-> y] :
         o \in OutOfRangeOrdinals, m \in NumberedMonths, f \in BOOLEAN,
         y \in NumberedYears}

NumberedInputs ==
    {NumberedText(sh) : sh \in NumberedShapes \cup OutOfRangeShapes}

\* "@N" and "@-N", alone and followed by a zone name; "nozone" is a name
\* no strategy of the resolver knows
EpochSeconds == {0, 1, 86399, 86400, 1121373041}

EpochZones == {"", " jst", " utc", " nozone"}

EpochText(sign, n, z) == "@" \o sign \o Itoa(n) \o z

EpochInputs ==
    {EpochText(sign, n, z) : sign \in {"", "-"}, n \in EpochSeconds,
                             z \in EpochZones}

\* "@S.F": whole seconds S and fraction digits F, of one to nine digits
\* and of more than nine
FractionSeconds == {1, 86399, 1121373041}

FractionDigits ==
    {"5", "000001", "123456789", "999999999", "0157", "255284863",
     "1234567899", "99999999999999999"}

FractionText(sec, frac) == "@" \o Itoa(sec) \o "." \o frac

FractionInputs ==
    {FractionText(sec, frac) : sec \in FractionSeconds,
                               frac \in FractionDigits}

HttpLogInputs ==
    {"10/Oct/2000:13:55:36 -0700", "29/Feb/2020:00:00:00 +0900",
     "31/Dec/2023:23:59:59 +0000"}

\* literals that write their whole date
AbsoluteInputs ==
    LiteralInputs \cup HttpLogInputs \cup EpochInputs \cup FractionInputs

\* the last token of a timezone-qualified input: names the resolver
\* knows, and "nozone" and "next", which no strategy resolves
ResolvedZoneTokens == {"jst", "utc", "europe/paris"}

UnresolvedZoneTokens == {"nozone", "next"}

\* "HH:MM[:SS]" before the zone of a time-only input
BareTimes == {"10:20", "22:30:41"}

\* what precedes the zone in the other timezone-qualified formats
DatedPrefixes ==
    {"january 1 2023", "june 1 1985 16:30", "june 1 1985 16:30:00",
     "2005-07-14 22:30:41"}

ZonedText(prefix, z) == prefix \o " " \o z

ZonedInputs ==
    {ZonedText(p, z) : p \in BareTimes \cup DatedPrefixes,
                       z \in ResolvedZoneTokens \cup UnresolvedZoneTokens}

\* dates and times of day written in front of a zone
WrittenShapes ==
    {[y |-> 2005, m |-> 7, name |-> "july", d |-> 14,
      h |-> 22, mi |-> 30, s |-> 41],
     [y |-> 2023, m |-> 1, name |-> "january", d |-> 1,
      h |-> 0, mi |-> 0, s |-> 0]}

\* HH:MM:SS of the shape sh
WrittenClock(sh) == Pad2(sh.h) \o ":" \o Pad2(sh.mi) \o ":" \o Pad2(sh.s)

\* "<ISO date> HH:MM:SS <zone>" and "<Month> D YYYY HH:MM:SS <zone>"
WrittenText(form, sh, z) ==
    IF form = "iso"
    THEN Itoa(sh.y) \o "-" \o Pad2(sh.m) \o "-" \o Pad2(sh.d) \o " "
             \o WrittenClock(sh) \o " " \o z
    ELSE sh.name \o " " \o Itoa(sh.d) \o " " \o Itoa(sh.y) \o " "
             \o WrittenClock(sh) \o " " \o z

WrittenZoneInputs ==
    {WrittenText(form, sh, z) : form \in {"iso", "month"},
                                sh \in WrittenShapes,
                                z \in ResolvedZoneTokens}

\* clauses an offset clause follows, "" for none
ClausePrefixes == {"", "+1 week ", "next week ", "-2 days ", "last monday "}

\* spellings of the units
UnitSpellings ==
    {"day", "days", "d", "week", "wks", "month", "mon", "year", "yrs",
     "hour", "h", "min", "minutes", "sec", "second"}

\* an offset clause "N u" after the clauses pre
OffsetShapes ==
    {[pre |-> pre, n |-> n, u |-> u] :
         pre \in ClausePrefixes, n \in 0..MaxAmount, u \in UnitSpellings}

ImplicitText(sh) == sh.pre \o Itoa(sh.n) \o " " \o sh.u

ExplicitText(sh) == sh.pre \o "+" \o Itoa(sh.n) \o " " \o sh.u

ImplicitInputs == {ImplicitText(sh) : sh \in OffsetShapes}

\* European literals: day and month as written with their values, among
\* them a day the month does not have and fields with leading zeros, which
\* make the literal longer than parseEuropeanFormat accepts
EuropeanShapes ==
    {<<"15", "01", 15, 1>>, <<"1", "1", 1, 1>>, <<"31", "12", 31, 12>>,
     <<"31", "02", 31, 2>>, <<"0001", "0001", 1, 1>>}

\* years as written, with their values
EuropeanYears ==
    {<<"00", 0>>, <<"05", 5>>, <<"69", 69>>, <<"70", 70>>, <<"99", 99>>,
     <<"5", 5>>, <<"100", 100>>, <<"999", 999>>, <<"2023", 2023>>}

EuropeanText(sh, y) == sh[1] \o "." \o sh[2] \o "." \o y[1]

EuropeanInputs ==
    {EuropeanText(sh, y) : sh \in EuropeanShapes, y \in EuropeanYears}

\* ISO, slash and US literals whose year field has four digits: the year
\* as written with its value, and month and day with and without leading
\* zeros
FourDigitYears ==
    {<<"0001", 1>>, <<"0069", 69>>, <<"0070", 70>>, <<"0099", 99>>,
     <<"0100", 100>>, <<"1999", 1999>>, <<"2023", 2023>>}

FourDigitShapes == {<<"01", "15", 1, 15>>, <<"6", "5", 6, 5>>}

FourDigitText(form, y, sh) ==
    CASE form = "iso" -> y[1] \o "-" \o sh[1] \o "-" \o sh[2]
      [] form = "slash" -> y[1] \o "/" \o sh[1] \o "/" \o sh[2]
      [] form = "us" -> sh[1] \o "/" \o sh[2] \o "/" \o y[1]

FourDigitInputs ==
    {FourDigitText(form, y, sh) :
         form \in {"iso", "slash", "us"}, y \in FourDigitYears,
         sh \in FourDigitShapes}

\* inputs with a token that no recogniser accepts, alone, behind a
\* relative clause and behind a standard date literal
UnacceptedInputs ==
    {"foo", "+1 day foo", "next monday foo", "foo 2023/01/15",
     "2023/01/15 foo", "01/15/2023 foo", "15.01.2023 10:30"}

\* inputs that open with a zone token, followed by nothing, by another
\* zone, by a relative clause or by a month-name clause with and without
\* a zone of its own
ZoneFirstInputs ==
    {"jst", "est pst", "jst next monday", "utc 3 days", "est january 1 2023",
     "est january 1 2023 pst", "jst june 1 1985 16:30:00 utc"}

\* the two-word entries of the full-name table
TwoWordZoneNames == {n \in DOMAIN timezoneNames : CountChar(n, " ") = 1}

\* inputs whose result depends on the reference time
RelativeInputs == MonthOffsetInputs \cup NavigationInputs \cup PartialInputs

Inputs ==
    RelativeInputs \cup LiteralInputs \cup RejectedInputs \cup ChainInputs
    \cup DanglingInputs \cup AdjustedInputs \cup HttpLogInputs
    \cup EpochInputs \cup FractionInputs \cup ImplicitInputs
    \cup EuropeanInputs \cup UnacceptedInputs \cup ZoneFirstInputs
    \cup TwoWordZoneNames \cup FourDigitInputs

\* calendar dates of reference times: a week of May 2023, ends of months,
\* leap days and the days around them
RefDates ==
    {<<2023, 5, 14>>, <<2023, 5, 15>>, <<2023, 5, 16>>, <<2023, 5, 17>>,
     <<2023, 5, 18>>, <<2023, 5, 19>>, <<2023, 5, 20>>,
     <<2023, 1, 30>>, <<2023, 1, 31>>, <<2023, 2, 28>>, <<2023, 3, 31>>,
     <<2023, 4, 30>>, <<2023, 5, 31>>, <<2023, 12, 31>>,
     <<2020, 1, 31>>, <<2020, 2, 29>>}

RefClocks == {<<10, 30, 0>>, <<0, 0, 0>>}

RefTimes ==
    {Date(d[1], d[2], d[3], c[1], c[2], c[3], 0, "UTC") :
         d \in RefDates, c \in RefClocks}

FewRefTimes ==
    {Date(2023, 5, 17, 10, 30, 0, 0, "UTC"),
     Date(2023, 1, 31, 22, 15, 40, 0, "UTC"),
     Date(2020, 2, 29, 0, 0, 0, 0, "UTC")}

\* two reference times in different years
TwoRefTimes ==
    {Date(2023, 5, 17, 10, 30, 0, 0, "UTC"),
     Date(2020, 2, 29, 0, 0, 0, 0, "UTC")}

Zones == {"UTC", "Asia/Tokyo"}

WallClocks == {Date(2024, 7, 4, 12, 0, 0, 0, "UTC")}

\* wall clocks another call could have run under
OtherClocks == {Date(2025, 1, 1, 0, 0, 0, 0, "UTC")}

(***************************************************************************)
(* One call of StrToTime as a state machine.  input, ref, zone and clock   *)
(* are the arguments and the environment of the call; pc is the position   *)
(* of the call: "call" before the pipeline, "parse" at the start of        *)
(* Parser.Parse, "loop" at the head of its loop, "done" after the return;  *)
(* parser is the Parser, out the value returned.                           *)
(***************************************************************************)

VARIABLES input, ref, zone, clock, pc, parser, out

vars == <<input, ref, zone, clock, pc, parser, out>>

\* out before the call has returned
Pending == [ok |-> FALSE, t |-> ZeroTime, err |-> "pending"]

\* parser before the Parser is created
NoParser == NewParser("", ZeroTime, "UTC")

Init ==
    /\ \/ /\ input \in RelativeInputs /\ ref \in RefTimes /\ zone = "UTC"
          /\ clock \in WallClocks
       \/ /\ input \in Inputs /\ ref \in FewRefTimes /\ zone \in Zones
          /\ clock \in WallClocks
       \/ /\ input \in NumberedInputs /\ ref \in TwoRefTimes /\ zone \in Zones
          /\ clock \in WallClocks
       \/ /\ input \in ZonedInputs \cup WrittenZoneInputs
          /\ ref \in FewRefTimes /\ zone \in Zones
          /\ clock \in WallClocks \cup OtherClocks
    /\ pc = "call"
    /\ parser = NoParser
    /\ out = Pending

\* StrToTime from its entry to the return of a whole-string form or to
\* the creation of the Parser
Call ==
    /\ pc = "call"
    /\ \E f \in {Front(input, ref, zone, clock)} :
           IF f.done
           THEN /\ out' = f.res
                /\ pc' = "done"
                /\ UNCHANGED parser
           ELSE /\ parser' = f.parser
                /\ pc' = "parse"
                /\ UNCHANGED out
    /\ UNCHANGED <<input, ref, zone, clock>>

\* Parser.Parse up to the loop: leading whitespace and the standard date
ParseBegin ==
    /\ pc = "parse"
    /\ \E r \in {tryParseStandardDate(skipWhitespace(parser))} :
           /\ parser' = r.p
           /\ IF r.ok
              THEN /\ out' = (IF r.err # "" THEN Err(r.err) ELSE Ok(r.t))
                   /\ pc' = "done"
              ELSE /\ pc' = "loop"
                   /\ UNCHANGED out
    /\ UNCHANGED <<input, ref, zone, clock>>

\* one iteration of the loop of Parser.Parse
ParseStep ==
    /\ pc = "loop"
    /\ parser.position < NumTokens(parser)
    /\ \E b \in {ParseLoopBody(parser)} :
           /\ parser' = b.p
           /\ IF b.err # ""
              THEN out' = Err(b.err) /\ pc' = "done"
              ELSE IF b.brk
              THEN out' = Ok(b.p.result) /\ pc' = "done"
              ELSE pc' = "loop" /\ UNCHANGED out
    /\ UNCHANGED <<input, ref, zone, clock>>

\* the loop condition fails: Parse returns the running result
ParseEnd ==
    /\ pc = "loop"
    /\ parser.position >= NumTokens(parser)
    /\ out' = Ok(parser.result)
    /\ pc' = "done"
    /\ UNCHANGED <<input, ref, zone, clock, parser>>

Next == Call \/ ParseBegin \/ ParseStep \/ ParseEnd

Spec == Init /\ [][Next]_vars

\* the reference time the call works with
Now == EffectiveNow(ref, zone, clock)

\* the call has returned
Done == pc = "done"

(***************************************************************************)
(* One call of Tokenize as a state machine over the same variables: input  *)
(* is the string as a sequence of bytes, out the tokens returned; pc is    *)
(* "tokenize" before the call and "tokens" after it.                       *)
(***************************************************************************)

\* the longest string tokenized
MaxBytes == 3

\* the bytes of the strings tokenized: space, 1, +, ., the comma, ], a,
\* the two bytes of U+00E9 (195 169), of the no-break space U+00A0
\* (194 160) and of the digit U+0660 (217 160), and 255, which starts no
\* encoding; 160 and 169 alone, and 194, 195, 217 without them, are faulty
TokenBytes == {32, 49, 43, 46, 44, 93, 97, 195, 169, 194, 160, 217, 255}

ByteStrings == UNION {[1..n -> TokenBytes] : n \in 0..MaxBytes}

TokenInit ==
    /\ input \in ByteStrings
    /\ ref = ZeroTime /\ zone = "UTC" /\ clock \in WallClocks
    /\ pc = "tokenize"
    /\ parser = NoParser
    /\ out = <<>>

TokenizeCall ==
    /\ pc = "tokenize"
    /\ out' = TokenizeBytes(input)
    /\ pc' = "tokens"
    /\ UNCHANGED <<input, ref, zone, clock, parser>>

TokenNext == TokenizeCall

TokenSpec == TokenInit /\ [][TokenNext]_vars

\* Tokenize has returned
Tokenized == pc = "tokens"

(***************************************************************************)
(* One call of parseCompoundExpression as a state machine over the same    *)
(* variables, on the bytes of the string: input is str as StrToTime holds  *)
(* it behind TrimSpace and ToLower; out is [parts, operators, calls],      *)
(* calls being the strings handed to the nested calls of StrToTime so far; *)
(* pc is "chain" before the split, "segments" in the loop over the         *)
(* operators, "failed" after the return of an error and "returned" after   *)
(* the return of a time.                                                   *)
(***************************************************************************)

\* the Replacer of the compound forms over bytes (32 space, 43 +, 45 -)
RECURSIVE NormalizeBytes(_)
NormalizeBytes(s) ==
    IF s = <<>> THEN <<>>
    ELSE IF Len(s) >= 3 /\ s[1] = 32 /\ s[2] \in {43, 45} /\ s[3] = 32
         THEN <<s[2]>> \o NormalizeBytes(SubSeq(s, 4, Len(s)))
    ELSE IF Len(s) >= 2 /\ s[1] \in {43, 45} /\ s[2] = 32
         THEN <<s[1]>> \o NormalizeBytes(SubSeq(s, 3, Len(s)))
    ELSE <<s[1]>> \o NormalizeBytes(Tail(s))

\* isCompoundExpression over bytes
isCompoundBytes(str) ==
    \E c \in {43, 45} :
        /\ \E i \in 1..Len(NormalizeBytes(str)) : NormalizeBytes(str)[i] = c
        /\ NormalizeBytes(str)[1] # c

\* the splitting loop of parseCompoundExpression over the bytes of the
\* normalised string: string(normalizedStr[i]) is the encoding of the code
\* point that has the value of the byte, two bytes for a byte above 127
RECURSIVE SplitBytes(_, _, _, _, _)
SplitBytes(s, i, currentPart, parts, operators) ==
    IF i > Len(s)
    THEN [parts     |-> IF currentPart # <<>> THEN Append(parts, currentPart)
                        ELSE parts,
          operators |-> operators]
    ELSE IF s[i] \in {43, 45} /\ i > 1
         THEN SplitBytes(s, i + 1, <<>>, Append(parts, currentPart),
                         Append(operators, WriteRune(s[i])))
    ELSE SplitBytes(s, i + 1, currentPart \o WriteRune(s[i]), parts,
                    operators)

\* the runes of s one after the other, encoded
RECURSIVE EncodeRunes(_)
EncodeRunes(rs) ==
    IF rs = <<>> THEN <<>> ELSE WriteRune(Head(rs)) \o EncodeRunes(Tail(rs))

\* the runes of the bytes s from byte i on
RECURSIVE DecodeFrom(_, _)
DecodeFrom(s, i) ==
    IF i > Len(s) THEN <<>>
    ELSE <<RuneAt(s, i).r>> \o DecodeFrom(s, i + RuneAt(s, i).w)

\* unicode.ToLower for the code points below U+0100; the code points above
\* that the model writes have no lower-case form of their own
LowerRune(r) ==
    IF r \in 65..90 THEN r + 32
    ELSE IF r \in 192..222 /\ r # 215 THEN r + 32
    ELSE r

\* strings.ToLower over bytes
ToLowerBytes(s) ==
    EncodeRunes([k \in 1..Len(DecodeFrom(s, 1)) |->
                     LowerRune(DecodeFrom(s, 1)[k])])

\* the runes rs without the whitespace at their front
RECURSIVE TrimLeftRunes(_)
TrimLeftRunes(rs) ==
    IF rs # <<>> /\ IsSpaceRune(Head(rs)) THEN TrimLeftRunes(Tail(rs)) ELSE rs

\* the runes rs without the whitespace at their end
RECURSIVE TrimRightRunes(_)
TrimRightRunes(rs) ==
    IF rs # <<>> /\ IsSpaceRune(rs[Len(rs)])
    THEN TrimRightRunes(SubSeq(rs, 1, Len(rs) - 1)) ELSE rs

\* strings.TrimSpace over the bytes of a string of whole encodings
TrimSpaceBytes(s) ==
    EncodeRunes(TrimRightRunes(TrimLeftRunes(DecodeFrom(s, 1))))

\* str as a nested call of StrToTime holds it behind TrimSpace and ToLower
NormalizedBytes(s) == ToLowerBytes(TrimSpaceBytes(s))

\* the most characters of a chain
MaxUnits == 4

\* the characters of the chains as bytes: + - space 1 d, U+00E9 (195 169)
\* and U+20AC (226 130 172)
ChainUnits ==
    {<<43>>, <<45>>, <<32>>, <<49>>, <<100>>, <<195, 169>>, <<226, 130, 172>>}

\* the strings of n characters
RECURSIVE UnitStrings(_)
UnitStrings(n) ==
    IF n = 0 THEN {<<>>}
    ELSE {u \o s : u \in ChainUnits, s \in UnitStrings(n - 1)}

\* the strings that reach parseCompoundExpression: trimmed, in lower case,
\* with an operator behind the first byte; none of them has the digits,
\* letters or separators that an earlier sub-parser needs
ChainStrings ==
    {s \in UNION {UnitStrings(n) : n \in 1..MaxUnits} :
        s[1] # 32 /\ s[Len(s)] # 32 /\ isCompoundBytes(s)}

\* out before the split
NoSplit == [parts |-> <<>>, operators |-> <<>>, calls |-> <<>>]

ChainInit ==
    /\ input \in ChainStrings
    /\ ref = ZeroTime /\ zone = "UTC" /\ clock \in WallClocks
    /\ pc = "chain"
    /\ parser = NoParser
    /\ out = NoSplit

\* parseCompoundExpression up to the loop: the split, the check of the
\* number of parts, the nested call on the first part, which fails or not
SplitCall ==
    /\ pc = "chain"
    /\ \E sp \in {SplitBytes(NormalizeBytes(input), 1, <<>>, <<>>, <<>>)} :
           IF Len(sp.parts) < 2 \/ Len(sp.operators) < 1
           THEN /\ out' = [parts |-> sp.parts, operators |-> sp.operators,
                           calls |-> <<>>]
                /\ pc' = "failed"
           ELSE /\ out' = [parts |-> sp.parts, operators |-> sp.operators,
                           calls |-> <<sp.parts[1]>>]
                /\ pc' \in {"segments", "failed"}
    /\ UNCHANGED <<input, ref, zone, clock, parser>>

\* one iteration of the loop over the operators: i is the index of the
\* operator (1-based), one more call made than operators handled; the
\* nested call on operator and part fails or not
SegmentCall ==
    /\ pc = "segments"
    /\ Len(out.calls) <= Len(out.operators)
    /\ LET i == Len(out.calls)
       IN  IF i + 1 > Len(out.parts)
           THEN pc' = "failed" /\ UNCHANGED out
           ELSE /\ out' = [out EXCEPT !.calls =
                               Append(@, out.operators[i] \o out.parts[i + 1])]
                /\ pc' \in {"segments", "failed"}
    /\ UNCHANGED <<input, ref, zone, clock, parser>>

\* every operator was handled: parseCompoundExpression returns the result
ChainReturn ==
    /\ pc = "segments"
    /\ Len(out.calls) > Len(out.operators)
    /\ pc' = "returned"
    /\ UNCHANGED <<input, ref, zone, clock, parser, out>>

ChainNext == SplitCall \/ SegmentCall \/ ChainReturn

ChainSpec == ChainInit /\ [][ChainNext]_vars

(***************************************************************************)
(* Properties.  D is Now, the reference time of the call; the result of    *)
(* the call is out once Done holds.                                        *)
(***************************************************************************)

\* the calendar month n months from month m of year y: [y, m]
MonthsFrom(y, m, n) ==
    [y |-> (y * 12 + (m - 1) + n) \div 12,
     m |-> ((y * 12 + (m - 1) + n) % 12) + 1]

\* t shows the calendar date y-m-d
OnDate(t, y, m, d) == Year(t) = y /\ Month(t) = m /\ Day(t) = d

\* t and u show the same time of day
SameClock(t, u) ==
    /\ Hour(t) = Hour(u) /\ Minute(t) = Minute(u) /\ Second(t) = Second(u)
    /\ t.ns = u.ns

\* t shows 00:00:00
AtMidnight(t) == Hour(t) = 0 /\ Minute(t) = 0 /\ Second(t) = 0 /\ t.ns = 0

\* t shows the last day of its month
IsMonthEnd(t) == Day(t) = DaysInMonth(Year(t), Month(t))

SignOf(sign) == IF sign = "-" THEN 0 - 1 ELSE 1

\* the weekday a name stands for, 0 = Sunday .. 6 = Saturday
WeekdayOfName ==
    [sunday |-> 0, sun |-> 0, monday |-> 1, mon |-> 1, tuesday |-> 2,
     tue |-> 2, wednesday |-> 3, wed |-> 3, thursday |-> 4, thu |-> 4,
     friday |-> 5, fri |-> 5, saturday |-> 6, sat |-> 6]

\* the call returned an error and no time
Rejected == ~out.ok /\ out.t = ZeroTime

\* C1: from a reference time D on the last day of its month, "+N month"
\* and "-N month" return the last day of the month N months from D's month
\* with D's time of day; "-1 month" behind a date literal that is the last
\* day of its month returns the last day of the month before.
C1_EndOfMonthClamp ==
    /\ \A sign \in {"+", "-"}, n \in Amounts :
         (Done /\ input = MonthOffsetText(sign, n) /\ IsMonthEnd(Now)) =>
             LET target == MonthsFrom(Year(Now), Month(Now), SignOf(sign) * n)
             IN  /\ out.ok
                 /\ OnDate(out.t, target.y, target.m,
                           DaysInMonth(target.y, target.m))
                 /\ SameClock(out.t, Now)
    /\ \A lit \in DateLiterals :
         (/\ Done /\ input = AdjustedText(lit, "-1 month")
          /\ lit.d = DaysInMonth(lit.y, lit.m)) =>
             LET target == MonthsFrom(lit.y, lit.m, 0 - 1)
             IN  /\ out.ok
                 /\ OnDate(out.t, target.y, target.m,
                           DaysInMonth(target.y, target.m))
                 /\ AtMidnight(out.t)

\* C2: every input of the rejection set ("2005-99-99", "February 30, 2023",
\* "February 29, 2023", "sixth Monday of January 2023", the empty and the
\* blank string, dates with a month outside 1..12 or a day that does not
\* exist) makes the call return an error and no time.
C2_RejectionSet ==
    \A s \in RejectedInputs : (Done /\ input = s) => Rejected

\* C3: a relative or navigational expression that breaks off ("next" or
\* "last" without a weekday or unit, a sign without a number, a number
\* without a unit word) makes the call fail with ExpectedTimeUnit,
\* MissingAmount, InvalidNumber or InvalidTimeUnit; no time is returned.
C3_PartialExpressionFails ==
    \A s \in PartialInputs :
        (Done /\ input = s) =>
            /\ Rejected
            /\ out.err \in {"ErrExpectedTimeUnit", "ErrMissingAmount",
                            "ErrInvalidNumber", "ErrInvalidTimeUnit"}

\* C4: when the call succeeds on a numeric date literal (ISO, slash, US,
\* European, compact), the result shows the month and the day written in
\* the literal, and that day exists in that month and year.
C4_LiteralCalendarValidity ==
    \A f \in LiteralForms, y \in LiteralYears, m \in LiteralMonths,
       d \in LiteralDays :
        (Done /\ input = LiteralText(f, y, m, d) /\ out.ok) =>
            /\ Month(out.t) = m /\ Day(out.t) = d
            /\ d <= DaysInMonth(y, m)

\* C5: "<date literal> <rest>" returns what <rest> alone returns with
\* midnight of that date as reference time, whatever the reference time of
\* the call is, also for a literal written with "-".
C5_DateThenAdjustment ==
    \A lit \in DateLiterals, rest \in Adjustments :
        (Done /\ input = AdjustedText(lit, rest)) =>
            out = StrToTime(rest, Date(lit.y, lit.m, lit.d, 0, 0, 0, 0, zone),
                            zone, clock)

\* r_i of chain c: r_0 is the first segment parsed against D, r_i is
\* operator i with segment i parsed against r_(i-1)
RECURSIVE ChainResult(_, _, _, _, _)
ChainResult(c, i, D, loc, clk) ==
    IF i = 0 THEN StrToTime(c.s0, D, loc, clk)
    ELSE LET prev == ChainResult(c, i - 1, D, loc, clk)
         IN  IF prev.ok
             THEN StrToTime(c.ops[i] \o c.segs[i], prev.t, loc, clk)
             ELSE prev

\* "+1 year", then "+1 month", then "+1 week", each parsed against the
\* result before it, starting from D
YearMonthWeek(D, loc, clk) ==
    StrToTime("+1 week",
              StrToTime("+1 month", StrToTime("+1 year", D, loc, clk).t,
                        loc, clk).t,
              loc, clk)

\* C6: a chain s0 op1 s1 ... opk sk, spaced or not, returns r_k, where r_0
\* is s0 parsed against D and r_i is op_i s_i parsed against r_(i-1);
\* "next year + 1 month + 1 week" returns what +1 year, then +1 month,
\* then +1 week return from D; both spellings return the same.
C6_ChainsComposeLeftToRight ==
    /\ \A c \in ChainShapes, spaced \in BOOLEAN :
         (Done /\ input = ChainText(c, spaced)) =>
             /\ out.ok
             /\ out = ChainResult(c, Len(c.ops), Now, zone, clock)
             /\ out = StrToTime(ChainText(c, ~spaced), ref, zone, clock)
    /\ (Done /\ input \in {"next year + 1 month + 1 week",
                           "next year+1 month+1 week"}) =>
           out = YearMonthWeek(Now, zone, clock)

\* a chain of two operators has returned a time other than D
C6_Witness ==
    /\ Done /\ input = "next year + 1 month + 1 week"
    /\ out.ok /\ out.t # Now

\* C7: a chain in which an operator has no segment behind it fails with an
\* invalid-compound-expression error; no time is returned.
C7_DanglingOperatorFails ==
    \A s \in DanglingInputs :
        (Done /\ input = s) =>
            /\ Rejected
            /\ out.err \in
                 {"invalid compound expression format",
                  "missing operand after operator in compound expression"}

\* C8: "next W" returns 00:00:00 of a date with weekday W that lies k days
\* after D's date, "last W" of one k days before it, 1 <= k <= 7, and
\* k = 7 exactly when D falls on W.
C8_WeekdayNavigation ==
    \A w \in WeekdayNames :
        /\ (Done /\ input = "next " \o w) =>
               /\ out.ok /\ AtMidnight(out.t)
               /\ Weekday(out.t) = WeekdayOfName[w]
               /\ WallDay(out.t) - WallDay(Now) \in 1..7
               /\ (WallDay(out.t) - WallDay(Now) = 7
                       <=> Weekday(Now) = WeekdayOfName[w])
        /\ (Done /\ input = "last " \o w) =>
               /\ out.ok /\ AtMidnight(out.t)
               /\ Weekday(out.t) = WeekdayOfName[w]
               /\ WallDay(Now) - WallDay(out.t) \in 1..7
               /\ (WallDay(Now) - WallDay(out.t) = 7
                       <=> Weekday(Now) = WeekdayOfName[w])

\* "next monday" on a Monday has returned the Monday a week later
C8_Witness ==
    /\ Done /\ input = "next monday" /\ Weekday(Now) = 1
    /\ out.ok /\ WallDay(out.t) = WallDay(Now) + 7

\* C9: "next week" returns a Monday strictly after D's date, "last week" a
\* Monday strictly before D's date, on every weekday of D.
C9_WeekNavigation ==
    /\ (Done /\ input = "next week") =>
           /\ out.ok /\ Weekday(out.t) = 1
           /\ WallDay(out.t) > WallDay(Now)
    /\ (Done /\ input = "last week") =>
           /\ out.ok /\ Weekday(out.t) = 1
           /\ WallDay(out.t) < WallDay(Now)

\* the result lies n months from D's month, with D's day of the month and
\* time of day when that day exists in the month
MovedByMonths(n) ==
    LET target == MonthsFrom(Year(Now), Month(Now), n)
    IN  /\ out.ok
        /\ Year(out.t) = target.y /\ Month(out.t) = target.m
        /\ Day(Now) <= DaysInMonth(target.y, target.m) =>
               Day(out.t) = Day(Now) /\ SameClock(out.t, Now)

\* C10: "next month" and "last month" return a time in the month after and
\* before D's month, "next year" and "last year" one in the same month a
\* year later and earlier, with D's day of the month and time of day
\* whenever that day exists there; never a time in another month.
C10_MonthYearNavigation ==
    /\ (Done /\ input = "next month") => MovedByMonths(1)
    /\ (Done /\ input = "last month") => MovedByMonths(0 - 1)
    /\ (Done /\ input = "next year") => MovedByMonths(12)
    /\ (Done /\ input = "last year") => MovedByMonths(0 - 12)

\* the year a numbered weekday is about: the one written, else D's year
NumberedYear(sh) == IF sh.y = 0 THEN Year(Now) ELSE sh.y

\* the days of month m of year y that fall on weekday w, in location loc
DaysOnWeekday(y, m, w, loc) ==
    {d \in 1..DaysInMonth(y, m) :
         Weekday(Date(y, m, d, 0, 0, 0, 0, loc)) = w}

\* C11: "<n> W [of] M [Y]" with n in 1..5, numeric or a word, returns
\* 00:00:00 of the date of M/Y that has weekday W and exactly n-1 earlier
\* dates of weekday W in the month, whenever that date exists; "last"
\* returns the date of M/Y with weekday W behind which no date of the month
\* has weekday W; a year that is not written is the year of D.
C11_NumberedWeekday ==
    \A sh \in NumberedShapes :
        LET y    == NumberedYear(sh)
            days == DaysOnWeekday(y, sh.m, WeekdayOfName[sh.w], zone)
        IN  (/\ Done /\ input = NumberedText(sh)
             /\ (sh.n > 0 => Cardinality(days) >= sh.n)) =>
                /\ out.ok /\ AtMidnight(out.t) /\ out.t.loc = zone
                /\ Year(out.t) = y /\ Month(out.t) = sh.m
                /\ Day(out.t) \in days
                /\ IF sh.n > 0
                   THEN Cardinality({d \in days : d < Day(out.t)}) = sh.n - 1
                   ELSE \A d \in days : d <= Day(out.t)

\* the third Monday of December 2008 and the last Friday of D's May
C11_Witness ==
    /\ Done /\ out.ok
    /\ \/ input = "third monday of december 2008"
          /\ OnDate(out.t, 2008, 12, 15)
       \/ input = "last fri may" /\ Weekday(out.t) = 5
          /\ Year(out.t) = Year(Now)

\* C12: a numbered weekday whose ordinal number is outside 1..5, or whose
\* n-th occurrence does not exist in the month, ends in an error: the call
\* returns neither a date nor the unchanged reference time.
C12_MissingNumberedWeekday ==
    \A sh \in NumberedShapes \cup OutOfRangeShapes :
        LET days == DaysOnWeekday(NumberedYear(sh), sh.m,
                                  WeekdayOfName[sh.w], zone)
        IN  (/\ Done /\ input = NumberedText(sh)
             /\ sh.n >= 0
             /\ (sh.n \notin 1..5 \/ Cardinality(days) < sh.n)) => Rejected

\* C13: a literal that writes its whole date (ISO, slash, US, European,
\* compact, HTTP-log, Unix epoch) returns, under every zone option, the same
\* result whatever the reference time (given or not) and the wall clock are.
C13_LiteralsIgnoreNow ==
    (Done /\ input \in AbsoluteInputs) =>
        \A r \in FewRefTimes \cup {ZeroTime} :
            \A c \in WallClocks \cup OtherClocks :
                StrToTime(input, r, zone, c) = out

C13_Witness ==
    /\ Done /\ out.ok /\ input = "2023/02/28" /\ zone = "Asia/Tokyo"
    /\ OnDate(out.t, 2023, 2, 28) /\ Now # out.t
    /\ \A c \in OtherClocks : StrToTime(input, ZeroTime, zone, c) = out

\* C14: with a reference time supplied, the result does not change with the
\* wall clock; the date of a bare "HH:MM[:SS] <zone>" is the date the
\* reference time has in that zone.
C14_ReferenceReplacesClock ==
    Done =>
        /\ \A c \in WallClocks \cup OtherClocks :
               StrToTime(input, ref, zone, c) = out
        /\ \A b \in BareTimes, z \in ResolvedZoneTokens :
               input = ZonedText(b, z) =>
                   /\ out.ok
                   /\ LET D == In(ref, tryParseTimezone(z).loc)
                      IN  OnDate(out.t, Year(D), Month(D), Day(D))

\* seconds from 1970-01-01 00:00:00 UTC to t
UnixSeconds(t) == (t.day - DaysFromCivil(1970, 1, 1)) * 86400 + t.sec

\* C15: "@N" returns the instant N seconds after the epoch whatever the
\* reference time and the zone option are; "@N <zone>" returns the same
\* instant, shown in the named zone when the name resolves and in the zone
\* of the call otherwise.
C15_UnixEpoch ==
    \A sign \in {"", "-"}, n \in EpochSeconds, z \in EpochZones :
        (Done /\ input = EpochText(sign, n, z)) =>
            /\ out.ok
            /\ UnixSeconds(out.t) = (IF sign = "-" THEN 0 - n ELSE n)
            /\ out.t.ns = 0
            /\ out.t.loc =
                   (IF z # "" /\ tryParseTimezone(SubSeq(z, 2, Len(z))).found
                    THEN tryParseTimezone(SubSeq(z, 2, Len(z))).loc
                    ELSE zone)

C15_Witness ==
    /\ Done /\ out.ok /\ input = "@-86399 jst" /\ zone = "UTC"
    /\ out.t.loc = "Asia/Tokyo" /\ OnDate(out.t, 1969, 12, 31)
    /\ Hour(out.t) = 9 /\ Second(out.t) = 1

\* C16: "@S.F" returns Unix seconds S and the nanoseconds written by the
\* first nine digits of F, padded with zeros on the right; further digits
\* are cut off and never carried into the next second.
C16_FractionalEpoch ==
    \A sec \in FractionSeconds, frac \in FractionDigits :
        (Done /\ input = FractionText(sec, frac)) =>
            /\ out.ok
            /\ UnixSeconds(out.t) = sec
            /\ out.t.ns = DigitsValue(SubSeq(frac \o "000000000", 1, 9))

\* C17: a timezone-qualified input whose zone token no strategy of the
\* resolver resolves is no match for parseWithTimezone, and the call ends in
\* an error instead of a time built in the zone of the call.
C17_ZoneIsMandatory ==
    \A p \in BareTimes \cup DatedPrefixes, z \in UnresolvedZoneTokens :
        input = ZonedText(p, z) =>
            /\ ~tryParseTimezone(z).found
            /\ ~parseWithTimezone(input, zone, clock).ok
            /\ Done => ~out.ok

\* the bytes of tokens i.. of toks one after the other
RECURSIVE Joined(_, _)
Joined(toks, i) ==
    IF i > Len(toks) THEN <<>> ELSE toks[i].Val \o Joined(toks, i + 1)

\* C18: the tokens of a string are not empty, their values one after the
\* other are the string, the first token has Pos 0 and every later one the
\* Pos of the token before it plus the byte length of that token's value;
\* the empty string has no tokens.
C18_TokensPartition ==
    Tokenized =>
        /\ \A i \in 1..Len(out) : out[i].Val # <<>>
        /\ Joined(out, 1) = input
        /\ Len(out) > 0 => out[1].Pos = 0
        /\ \A i \in 2..Len(out) :
               out[i].Pos = out[i - 1].Pos + Len(out[i - 1].Val)
        /\ input = <<>> => out = <<>>

\* the runes of the bytes v from byte i on
RECURSIVE RunesFrom(_, _)
RunesFrom(v, i) ==
    IF i > Len(v) THEN <<>>
    ELSE <<RuneAt(v, i).r>> \o RunesFrom(v, i + RuneAt(v, i).w)

\* the class of a character by the rules in their order: whitespace, digit,
\* one of + - : / . , one of , ; ( ) [ ] , else String
ClassOf(r) ==
    CASE IsSpaceRune(r) -> "Whitespace"
      [] ~IsSpaceRune(r) /\ IsDigitRune(r) -> "Number"
      [] r \in {43, 45, 58, 47, 46} -> "Operator"
      [] r \in {44, 59, 40, 41, 91, 93} -> "Punctuation"
      [] OTHER -> "String"

\* C19: every character of a token has the class that is the token's kind,
\* and no two adjacent tokens have the same kind, so that every token is a
\* longest run of characters of one class.
C19_TokenKinds ==
    Tokenized =>
        /\ \A i \in 1..Len(out) :
               \A k \in 1..Len(RunesFrom(out[i].Val, 1)) :
                   ClassOf(RunesFrom(out[i].Val, 1)[k]) = out[i].Typ
        /\ \A i \in 2..Len(out) : out[i].Typ # out[i - 1].Typ

C19_Witness ==
    /\ Tokenized /\ input = <<217, 160, 46>>
    /\ out = <<[Val |-> <<217, 160>>, Typ |-> "Number", Pos |-> 0],
               [Val |-> <<46>>, Typ |-> "Operator", Pos |-> 2]>>

\* C20: an offset clause written without a sign, "N u", returns what the
\* same input returns with the clause written "+N u", for every amount from
\* 0 on, every spelling of a unit and every reference time, alone and after
\* other clauses; the unit is accepted, so the call returns a time.
C20_ImplicitIsPositive ==
    \A sh \in OffsetShapes :
        (Done /\ input = ImplicitText(sh)) =>
            /\ out.ok
            /\ out = StrToTime(ExplicitText(sh), ref, zone, clock)

C20_Witness ==
    /\ Done /\ out.ok /\ input = "next week 3 wks"
    /\ out.t # Now
    /\ out = StrToTime("next week +3 wks", ref, zone, clock)
    /\ out.t = AddDate(StrToTime("next week", ref, zone, clock).t, 0, 0, 21)

\* the year a European literal stands for when its year field has the
\* value v
WindowedYear(v) ==
    IF v < 70 THEN 2000 + v ELSE IF v < 100 THEN 1900 + v ELSE v

\* C21: in a European D.M.Y literal a year of value 0..69 is read as
\* 2000..2069, a year of value 70..99 as 1970..1999 and a year of value 100
\* or more as written; the call returns a time in that year, and so do the
\* whole-string sub-parser and the standard-date recogniser of the token
\* stream whenever they accept the literal.
C21_TwoDigitYears ==
    \A sh \in EuropeanShapes, y \in EuropeanYears :
        input = EuropeanText(sh, y) =>
            /\ Done => out.ok /\ Year(out.t) = WindowedYear(y[2])
            /\ parseEuropeanFormat(input, zone).ok =>
                   Year(parseEuropeanFormat(input, zone).t)
                       = WindowedYear(y[2])
            /\ tryParseStandardDate(NewParser(input, Now, zone)).ok =>
                   Year(tryParseStandardDate(NewParser(input, Now, zone)).t)
                       = WindowedYear(y[2])

\* a literal too long for the whole-string sub-parser, read by the
\* recogniser of the token stream as a day of 1970
C21_Witness ==
    /\ Done /\ input = "0001.0001.70" /\ out.ok
    /\ ~parseEuropeanFormat(input, zone).ok
    /\ parser.position = 5
    /\ Year(out.t) = 1970

\* the tokens of p from position i up to, not including, position j are
\* whitespace
OnlyWhitespace(p, i, j) ==
    \A k \in i..(j - 1) : Tok(p, k).Typ = "Whitespace"

\* an iteration of the loop of Parse that does not end in an error moves
\* the cursor over whitespace only, unless a recogniser succeeded in it
ConsumedBySuccess ==
    (pc = "loop" /\ pc' = "loop") =>
        \/ TryZone(skipWhitespace(parser),
                   Parser_tryParseTimezone(skipWhitespace(parser))).parsed
        \/ OnlyWhitespace(parser, parser.position, parser'.position)

\* C22: when Parser.Parse returns a time without error the cursor is at the
\* end of the tokens, and every token that is not whitespace was consumed
\* by a recogniser that succeeded; a token that no recogniser accepts,
\* also behind a standard date literal ("2023/01/15 foo",
\* "15.01.2023 10:30"), makes the call fail with the unexpected-token
\* error.
C22_ParseConsumedEverything ==
    /\ []((Done /\ out.ok) => parser.position = NumTokens(parser))
    /\ [](\A s \in UnacceptedInputs :
              (Done /\ input = s) =>
                  Rejected /\ out.err = "unexpected token")
    /\ [][ConsumedBySuccess]_vars

\* t and u are the same instant
SameInstant(t, u) == t.day = u.day /\ t.sec = u.sec /\ t.ns = u.ns

\* once a zone was found, it stays found and the zone of the parser stays
\* what it is
ZoneStaysLocked ==
    parser.tzFound => parser'.tzFound /\ parser'.loc = parser.loc

\* the zone attempt of the loop, when it succeeds, sets tzFound and shows
\* the running result in the new zone without moving it
ZoneOnlyDisplays ==
    (/\ pc = "loop" /\ parser.position < NumTokens(parser)
     /\ ~parser.tzFound
     /\ Parser_tryParseTimezone(skipWhitespace(parser)).ok) =>
        /\ parser'.tzFound
        /\ SameInstant(parser'.result, parser.result)
        /\ parser'.result.loc = parser'.loc

\* C23: once a zone token was consumed in a parse, tzFound stays true and
\* the zone of the parser never changes again in that parse, no later word
\* being consumed as a zone (in "EST January 1 2023 PST" the result is
\* shown in the zone of EST); consuming a zone token changes the zone the
\* running result is shown in and not its instant.
C23_ZoneLock ==
    /\ [][ZoneStaysLocked]_vars
    /\ [][ZoneOnlyDisplays]_vars
    /\ []((Done /\ input = "est january 1 2023 pst") =>
              out.ok /\ out.t.loc = "America/New_York")

\* the cursor is inside the token list or at its end
CursorInBounds(p) == 0 <= p.position /\ p.position <= NumTokens(p)

\* from every position of the token list, a recogniser of the loop leaves
\* the cursor where it was or further on, within the list; the zone
\* lookahead that finds no zone leaves it where it was
RecognisersMoveForward ==
    pc = "loop" =>
        \A i \in 0..(NumTokens(parser) - 1) :
            LET q == [parser EXCEPT !.position = i]
            IN  /\ \A k \in 1..5 :
                       /\ Recogniser(k, q).p.position >= i
                       /\ CursorInBounds(Recogniser(k, q).p)
                /\ Parser_tryParseTimezone(q).p.position >= i
                /\ CursorInBounds(Parser_tryParseTimezone(q).p)
                /\ ~Parser_tryParseTimezone(q).ok =>
                       Parser_tryParseTimezone(q).p.position = i
                /\ skipWhitespace(q).position >= i
                /\ CursorInBounds(skipWhitespace(q))

\* C24: in every state of a parse 0 <= position <= number of tokens, and
\* the position never decreases from one step to the next: every
\* recogniser, the whitespace skip and the end of an iteration leave the
\* cursor where it was or move it forward, and a timezone lookahead that
\* finds no zone restores the position it started from.
C24_CursorMonotone ==
    /\ [](CursorInBounds(parser) /\ RecognisersMoveForward)
    /\ [][parser'.position >= parser.position]_vars

\* in the middle of a parse a zone lookahead finds no zone and leaves the
\* cursor where it was
C24_Witness ==
    /\ pc = "loop" /\ input = "next week 3 wks"
    /\ parser.position = 4
    /\ ~Parser_tryParseTimezone(parser).ok
    /\ Parser_tryParseTimezone(parser).p.position = 4

\* C25: an input that is a two-word entry of the full-name table
\* ("eastern time", "central time", "pacific time", "japan time",
\* "zulu time", ...) is consumed as one timezone clause: the call succeeds
\* and returns the reference time shown in the zone of the entry, also
\* when the first word alone is a zone name.
C25_TwoWordZoneNames ==
    \A n \in TwoWordZoneNames :
        (Done /\ input = n) =>
            /\ out.ok
            /\ out.t.loc = timezoneNames[n]
            /\ SameInstant(out.t, Now)
            /\ parser.position = 3

\* the number of bytes + and - of s
RECURSIVE OperatorCount(_)
OperatorCount(s) ==
    IF s = <<>> THEN 0
    ELSE (IF Head(s) \in {43, 45} THEN 1 ELSE 0) + OperatorCount(Tail(s))

\* C26: every string that parseCompoundExpression hands to a nested call
\* of StrToTime (the first segment and every operator with its segment) is
\* strictly shorter than the string of the caller; no such string is a
\* chain itself, so that chains nest one level deep, and the nested calls
\* are at most one more than the operators of the string.
C26_BoundedRecursion ==
    /\ \A k \in 1..Len(out.calls) :
           /\ Len(out.calls[k]) < Len(input)
           /\ ~isCompoundBytes(NormalizedBytes(out.calls[k]))
    /\ Len(out.calls) <= OperatorCount(input) + 1

\* the number of iterations that the loop of Parse makes from the parser p
RECURSIVE Iterations(_)
Iterations(p) ==
    IF p.position >= NumTokens(p) THEN 0
    ELSE IF ParseLoopBody(p).err # "" \/ ParseLoopBody(p).brk THEN 1
    ELSE 1 + Iterations(ParseLoopBody(p).p)

\* entered at any position of the token list, an iteration of the loop
\* returns or leaves the cursor behind that position
IterationAdvances ==
    pc = "loop" =>
        \A i \in 0..(NumTokens(parser) - 1) :
            LET q == [parser EXCEPT !.position = i]
            IN  \/ ParseLoopBody(q).err # ""
                \/ ParseLoopBody(q).brk
                \/ ParseLoopBody(q).p.position > i

\* the loop makes no more iterations than tokens are left
IterationsBounded ==
    pc = "loop" =>
        Iterations(parser) <= NumTokens(parser) - parser.position

\* C27: every iteration of the loop of Parser.Parse returns or ends with
\* the position strictly greater than at its start, also when a recogniser
\* moved the cursor and then reported no match; Parse returns after at most
\* len(tokens) iterations.
C27_LoopTerminates ==
    /\ [](IterationAdvances /\ IterationsBounded)
    /\ [][(pc = "loop" /\ pc' = "loop") =>
              parser'.position > parser.position]_vars

\* the loop goes on behind an iteration in which tryParseRelativeTime took
\* the sign, found no amount and reported no match
C27_Witness ==
    /\ pc = "loop" /\ input = "-"
    /\ parser.position = 1 /\ NumTokens(parser) = 1
    /\ ~tryParseRelativeTime(NewParser(input, Now, zone)).ok
    /\ tryParseRelativeTime(NewParser(input, Now, zone)).p.position = 1

\* C28: for "<ISO date> HH:MM:SS <zone>" with a zone that resolves, as for
\* "<Month> D YYYY HH:MM:SS <zone>", the call returns a time shown in the
\* named zone whose year, month, day, hour, minute and second are the
\* fields written, and the same time whatever the ambient zone of the call.
C28_WrittenZoneFixes ==
    \A form \in {"iso", "month"}, sh \in WrittenShapes,
       z \in ResolvedZoneTokens :
        (Done /\ input = WrittenText(form, sh, z)) =>
            /\ out.ok
            /\ out.t.loc = tryParseTimezone(z).loc
            /\ OnDate(out.t, sh.y, sh.m, sh.d)
            /\ Hour(out.t) = sh.h /\ Minute(out.t) = sh.mi
            /\ Second(out.t) = sh.s
            /\ \A a \in Zones : StrToTime(input, ref, a, clock) = out

\* the navigation phrases with the signed offsets they are to agree with
NavigationPairs ==
    {<<"next month", "+1 month">>, <<"last month", "-1 month">>,
     <<"next year", "+1 year">>, <<"last year", "-1 year">>}

\* C29: for every reference time D, also on the last day of its month,
\* "next month" returns what "+1 month" returns and "last month" what
\* "-1 month" returns; likewise "next year" and "+1 year", "last year" and
\* "-1 year".
C29_NextIsPlusOne ==
    \A pr \in NavigationPairs :
        (Done /\ input = pr[1]) =>
            /\ out.ok
            /\ out = StrToTime(pr[2], ref, zone, clock)

\* C30: an ISO, slash or US literal whose year field is written with four
\* digits, 0001..0099 among them, is accepted, and the time returned lies in
\* exactly the year written, on the month and day written; the whole-string
\* sub-parser of its form returns that year too.
C30_FourDigitYearLiteral ==
    \A form \in {"iso", "slash", "us"}, y \in FourDigitYears,
       sh \in FourDigitShapes :
        (Done /\ input = FourDigitText(form, y, sh)) =>
            /\ out.ok
            /\ OnDate(out.t, y[2], sh[3], sh[4])
            /\ parseISOFormat(input, zone).ok =>
                   Year(parseISOFormat(input, zone).t) = y[2]
            /\ parseSlashFormat(input, zone).ok =>
                   Year(parseSlashFormat(input, zone).t) = y[2]
            /\ parseUSFormat(input, zone).ok =>
                   Year(parseUSFormat(input, zone).t) = y[2]

====
